---- MODULE Spec2Model ----
(***************************************************************************)
(* A model of the spatial-showcase content binders, slideshow controller   *)
(* and scene lifecycle.                                                    *)
(*                                                                         *)
(* The host is a single-threaded event loop: every frame callback, timeout *)
(* callback, interval callback and direct call runs to completion, so each *)
(* is one action.  Every bind/create invocation occupies one slot of Calls *)
(* and every navigateToScene invocation one slot of Navs; each entity has  *)
(* its own panel document.                                                 *)
(***************************************************************************)
EXTENDS Integers, Sequences, FiniteSets, TLC

\* ------------------------------------------------------------------ bounds
MaxCalls == 2        \* bind/create invocations made
MaxEntities == 3     \* entities the host engine creates
MaxAttempts == 2     \* largest maxAttempts argument passed by a caller
MaxExtra == 2        \* longest description is DescLimit + MaxExtra characters
MaxFirings == 4      \* timer firings followed per slideshow
MaxTicks == 1        \* timer firings followed per slideshow beside the other loops
MaxTracked == 3      \* longest tracked-entity list
MaxDisposals == 2    \* dispose() calls followed
MaxNavs == 2         \* navigateToScene calls followed
MaxGiven == 5        \* longest thumbnails array of a panel record

\* ------------------------------------------------------- program constants
ThumbLimit == 4      \* content.thumbnails.slice(0, 4)
DescLimit == 50      \* content.description.length > 50
PanelThumbs == 4     \* thumbnails.length >= 4 ? thumbnails.slice(0, 4) : ...
DisplayPanels == 2   \* panels.slice(0, 2)

Calls == 1..MaxCalls
Entities == 1..MaxEntities
Undefined == "undefined"
NoSrc == ""
Placeholder == "data:image/svg+xml"
Ellipsis == <<46, 46, 46>>                      \* "..." as character codes

\* Texts are sequences of character codes.
NoText == << >>
TitleA == <<84, 49>>
TitleB == <<84, 50>>
DescOfLen(n) == [i \in 1..n |-> 97 + (i % 26)]

\* ---------------------------------------------------------------- elements
\* What an element of the panel document offers; the code probes each
\* capability before using it.
UIKitEl == {"setProperties", "addEventListener", "removeEventListener"}
DomEl == {"textContent", "innerText", "src", "setAttribute", "getAttribute",
          "addEventListener", "removeEventListener", "onclick", "style"}
SrcOnlyEl == {"src"}
OnclickEl == {"src", "onclick"}
AttrOnlyEl == {"setAttribute"}

NoHandler == [call |-> 0, src |-> NoSrc]

NewElement(caps) ==
  [caps |-> caps, faults |-> {}, text |-> NoText, src |-> NoSrc, via |-> "none",
   clickListeners |-> << >>, errorListeners |-> {},
   onclick |-> NoHandler, thumbnailClickHandler |-> NoHandler, cursor |-> "default",
   class |-> "none"]

ThumbnailId(n) == <<"thumbnail-1", "thumbnail-2", "thumbnail-3", "thumbnail-4">>[n]
ThumbnailIds == {ThumbnailId(n) : n \in 1..ThumbLimit}
GalleryIds == {"panel-title", "panel-description"} \cup ThumbnailIds
PanelIds == {"panel-title", "panel-description", "panel-image"}
\* The img elements in document order, for querySelectorAll("img").
ImgOrder == <<"panel-image", "thumbnail-1", "thumbnail-2", "thumbnail-3", "thumbnail-4">>
NoElement == "null"

NullObject3D == [isNull |-> TRUE, parent |-> "none", slideshowCleanup |-> 0, x |-> 0]
NewObject3D(parent) == [isNull |-> FALSE, parent |-> parent, slideshowCleanup |-> 0, x |-> 0]

VARIABLES
  world,              \* the entities the host engine has created
  indexed,            \* the entities whose entity.index is set
  docReady,           \* the entities e with PanelDocument.data.document[e.index] set
  docMethods,         \* per entity: the lookup methods its panel document offers
  elements,           \* per entity: the elements of its panel document, by id
  writers,            \* the calls whose binding, set-up or timer callback ran, the latest last
  object3D,           \* per entity: entity.object3D (its parent, its userData) or null
  pc,                 \* per call: "idle", "raf", "attempt" (a callback is pending), "done"
  attempt,            \* per call: the argument of the pending attempt callback
  args,               \* per call: the arguments the caller passed
  imageElement,       \* per createSlideshow call: the closure's imageElement
  currentIndex,       \* per createSlideshow call: the closure's currentIndex
  slideshowInterval,  \* per createSlideshow call: the closure's timer is running
  attemptsRun,        \* per call: how often the attempt function has run
  bound,              \* per call: how often the binding body has run
  warned,             \* per call: the exhaustion warning was logged
  caught,             \* per call: the catch around its attempt logged an exception
  returned,           \* per call: what the call returned to its caller, "none" before
  firings,            \* per createSlideshow call: how often its timer has fired
  lateFirings,        \* per createSlideshow call: its timer firings after a dispose()
  shown,              \* per createSlideshow call: the sources it assigned, in order
  thrown,             \* the exceptions that left an operation or a callback
  lastClick,          \* the click being dispatched: target and callback invocations
  entities,           \* this.entities of the scene: the tracked entities, in order
  removed,            \* per entity: how often its object3D left the scene graph
  removeCalls,        \* per entity: remove(object3D) calls made on a parent or the scene
  destroyed,          \* per entity: entity.destroy() calls
  disposals,          \* dispose() calls so far
  teardownFault,      \* the step of an entity's teardown that threw in the latest dispose()
  navPc,              \* per navigateToScene call: "idle", "awaiting" or "done"
  navTarget,          \* per navigateToScene call: targetSceneId
  navResult,          \* per navigateToScene call: what the awaited import came to
  loadScene,          \* the sceneManager.loadScene calls: <<call, SceneClass>>
  navLog,             \* per navigateToScene call: the warnings and handled errors
  panelFrames,        \* per entity: the panel whose binding frame is pending, and its stage
  sceneData,          \* this.sceneData of the scene: the panels and teleports it rendered
  portals             \* the portal buttons bound: entity, forEach index, target scene id

hostVars == <<world, indexed, docReady, docMethods>>
callVars == <<pc, attempt, args, attemptsRun, bound, warned, caught, returned>>
slideVars == <<imageElement, currentIndex, slideshowInterval, firings, lateFirings, shown>>
trackVars == <<entities, removed, removeCalls, destroyed, disposals, teardownFault>>
navVars == <<navPc, navTarget, navResult, loadScene, navLog>>
layoutVars == <<sceneData, portals>>
sceneVars == <<trackVars, navVars, panelFrames, layoutVars>>
vars == <<hostVars, elements, writers, object3D, callVars, slideVars, thrown, lastClick, sceneVars>>

\* ------------------------------------------------------------ element layer
Has(el, cap) == cap \in el.caps

\* Calling the mechanism throws (a host-side failure of that element).
Throws(el, cap) == cap \in el.faults

\* document.getElementById?.(id)
getElementById(els, id) == id \in DOMAIN els

\* The result of an operation on an element: the element after it and whether
\* an exception left the operation.
Ok(el) == [el |-> el, threw |-> FALSE]
Threw(el) == [el |-> el, threw |-> TRUE]

\* setProperties({text}) -> textContent -> innerText; first one offered wins,
\* and nothing here catches what it throws.
SetText(el, t) ==
  IF Has(el, "setProperties")
  THEN IF Throws(el, "setProperties") THEN Threw(el)
       ELSE Ok([el EXCEPT !.text = t, !.via = "setProperties"])
  ELSE IF Has(el, "textContent") THEN Ok([el EXCEPT !.text = t, !.via = "textContent"])
  ELSE IF Has(el, "innerText") THEN Ok([el EXCEPT !.text = t, !.via = "innerText"])
  ELSE Ok(el)

\* A mutation of SetThumbnailSrc: the direct src assignment is left out.
SetThumbnailSrcNoDirect(el, imageSrc) ==
  IF Has(el, "setProperties") /\ ~Throws(el, "setProperties")
  THEN Ok([el EXCEPT !.src = imageSrc, !.via = "setProperties"])
  ELSE IF Has(el, "setAttribute")
  THEN Ok([el EXCEPT !.src = imageSrc, !.via = "setAttribute"])
  ELSE Ok(el)

\* Set image with multiple fallback methods: setProperties({src}) in a try of
\* its own, then el.src = imageSrc, then setAttribute("src", imageSrc), each
\* only while the image is not set.
SetThumbnailSrc(el, imageSrc) ==
  IF Has(el, "setProperties") /\ ~Throws(el, "setProperties")
  THEN Ok([el EXCEPT !.src = imageSrc, !.via = "setProperties"])
  ELSE IF Has(el, "src")
  THEN IF Throws(el, "src") THEN Threw(el)
       ELSE Ok([el EXCEPT !.src = imageSrc, !.via = "src"])
  ELSE IF Has(el, "setAttribute")
  THEN IF Throws(el, "setAttribute") THEN Threw(el)
       ELSE Ok([el EXCEPT !.src = imageSrc, !.via = "setAttribute"])
  ELSE Ok(el)

\* addEventListener("error", handler, { once: true }), where the element has it
AddErrorListener(el, handler) ==
  IF Has(el, "addEventListener") THEN [el EXCEPT !.errorListeners = @ \cup {handler}] ELSE el

\* removeEventListener: seq without the first occurrence of h
RemoveFirst(seq, h) ==
  IF \E i \in 1..Len(seq) : seq[i] = h
  THEN LET i == CHOOSE j \in 1..Len(seq) : seq[j] = h /\ \A k \in 1..(j - 1) : seq[k] # h
       IN SubSeq(seq, 1, i - 1) \o SubSeq(seq, i + 1, Len(seq))
  ELSE seq

\* A mutation of RemoveOldClickHandler: the earlier handler stays attached.
RemoveOldClickHandlerSkips(el) == el

\* Remove any existing click handler to prevent duplicates.
RemoveOldClickHandler(el) ==
  IF el.thumbnailClickHandler # NoHandler /\ Has(el, "removeEventListener")
  THEN [el EXCEPT !.clickListeners = RemoveFirst(@, el.thumbnailClickHandler)]
  ELSE el

\* addEventListener("click", ...) -> onclick -> warn.
AttachClickHandler(el, h) ==
  IF Has(el, "addEventListener")
  THEN [el EXCEPT !.clickListeners = Append(@, h), !.thumbnailClickHandler = h]
  ELSE IF Has(el, "onclick") THEN [el EXCEPT !.onclick = h, !.thumbnailClickHandler = h]
  ELSE el

SetPointerStyle(el) ==
  IF Has(el, "style") \/ Has(el, "setAttribute") THEN [el EXCEPT !.cursor = "pointer"] ELSE el

\* ------------------------------------------------------------ element lookup
\* The lookup methods a panel document may offer.
DocMethods == {"getElementById", "querySelector", "querySelectorAll"}

\* The nodes a panel document may hold, in document order.  A node named by
\* an element id has that id; the others have no id, only a class.
NodeOrder ==
  <<"panel-title", "node-title", "panel-description", "node-description", "panel-image",
    "node-thumb-a", "thumbnail-1", "thumbnail-2", "thumbnail-3", "thumbnail-4", "node-thumb-b">>
ClassElement(caps, class) == [NewElement(caps) EXCEPT !.class = class]

\* document.querySelectorAll("." + class): the nodes of the class, in order.
querySelectorAll(els, class) ==
  SelectSeq(NodeOrder, LAMBDA k : k \in DOMAIN els /\ els[k].class = class)

\* let el = document.getElementById?.(id);
\* if (!el && document.querySelector) el = document.querySelector("#" + id)
FindById(els, methods, id) ==
  IF "getElementById" \in methods /\ id \in DOMAIN els THEN id
  ELSE IF "querySelector" \in methods /\ id \in DOMAIN els THEN id
  ELSE NoElement

\* A mutation of FindText: the class selector is asked first.
FindTextClassFirst(els, methods, id, class) ==
  IF "querySelector" \in methods /\ Len(querySelectorAll(els, class)) > 0
  THEN querySelectorAll(els, class)[1]
  ELSE FindById(els, methods, id)

\* The title or description element: by id, then
\* if (!el && document.querySelector) el = document.querySelector("." + class)
FindText(els, methods, id, class) ==
  IF FindById(els, methods, id) # NoElement THEN FindById(els, methods, id)
  ELSE IF "querySelector" \in methods /\ Len(querySelectorAll(els, class)) > 0
  THEN querySelectorAll(els, class)[1]
  ELSE NoElement

\* The element of thumbnail n (index n - 1): by id, then at position index of
\* document.querySelectorAll?.(".gallery-thumbnail") if document.querySelector.
FindThumbnail(els, methods, n) ==
  IF FindById(els, methods, ThumbnailId(n)) # NoElement
  THEN FindById(els, methods, ThumbnailId(n))
  ELSE IF /\ {"querySelector", "querySelectorAll"} \subseteq methods
          /\ Len(querySelectorAll(els, "gallery-thumbnail")) > n - 1
  THEN querySelectorAll(els, "gallery-thumbnail")[n]
  ELSE NoElement

\* ------------------------------------------------------------ gallery binder
\* A binding in progress: the elements so far and whether an exception has
\* ended it (the catch around attemptBinding logs it).
Binding(els) == [els |-> els, err |-> FALSE]
Put(b, id, r) == [b EXCEPT !.els[id] = r.el, !.err = r.threw]

\* A mutation of ShortDescription: one character fewer is kept.
ShortDescriptionCutsEarly(description) ==
  IF Len(description) > DescLimit
  THEN SubSeq(description, 1, DescLimit - 1) \o Ellipsis
  ELSE description

\* shortDescription
ShortDescription(description) ==
  IF Len(description) > DescLimit
  THEN SubSeq(description, 1, DescLimit) \o Ellipsis
  ELSE description

\* A mutation of BindTitle: a title that is already set is kept.
BindTitleKeepsFirst(b, content) ==
  LET titleElement == FindText(b.els, b.methods, "panel-title", "gallery-title") IN
  IF ~b.err /\ content.title # NoText /\ titleElement # NoElement
        /\ b.els[titleElement].text = NoText
  THEN Put(b, titleElement, SetText(b.els[titleElement], content.title))
  ELSE b

BindTitle(b, content) ==
  LET titleElement == FindText(b.els, b.methods, "panel-title", "gallery-title") IN
  IF ~b.err /\ content.title # NoText /\ titleElement # NoElement
  THEN Put(b, titleElement, SetText(b.els[titleElement], content.title))
  ELSE b

BindDescription(b, content) ==
  LET descriptionElement ==
        FindText(b.els, b.methods, "panel-description", "gallery-description") IN
  IF ~b.err /\ content.description # NoText /\ descriptionElement # NoElement
  THEN Put(b, descriptionElement,
           SetText(b.els[descriptionElement], ShortDescription(content.description)))
  ELSE b

\* A mutation of BindThumbnail: a thumbnail element that is not found ends
\* the binding.
BindThumbnailOrAbort(b, c, n, thumbnailSrc, onThumbnailClick) ==
  LET thumbnailElement == FindThumbnail(b.els, b.methods, n) IN
  IF b.err THEN b
  ELSE IF thumbnailElement = NoElement THEN [b EXCEPT !.err = TRUE]
  ELSE LET imageSrc == IF thumbnailSrc = NoSrc THEN Placeholder ELSE thumbnailSrc
           handler == [call |-> c, src |-> imageSrc]
           handleImageError == [call |-> c, n |-> 0]
           r == SetThumbnailSrc(b.els[thumbnailElement], imageSrc)
           e1 == AddErrorListener(r.el, handleImageError)
           e2 == IF onThumbnailClick
                 THEN SetPointerStyle(AttachClickHandler(RemoveOldClickHandler(e1), handler))
                 ELSE e1
       IN IF r.threw THEN Put(b, thumbnailElement, r) ELSE Put(b, thumbnailElement, Ok(e2))

\* One iteration of thumbnails.forEach; n is index + 1.
BindThumbnail(b, c, n, thumbnailSrc, onThumbnailClick) ==
  LET thumbnailElement == FindThumbnail(b.els, b.methods, n) IN
  IF b.err \/ thumbnailElement = NoElement THEN b
  ELSE LET imageSrc == IF thumbnailSrc = NoSrc THEN Placeholder ELSE thumbnailSrc
           handler == [call |-> c, src |-> imageSrc]
           handleImageError == [call |-> c, n |-> 0]
           r == SetThumbnailSrc(b.els[thumbnailElement], imageSrc)
           e1 == AddErrorListener(r.el, handleImageError)
           e2 == IF onThumbnailClick
                 THEN SetPointerStyle(AttachClickHandler(RemoveOldClickHandler(e1), handler))
                 ELSE e1
       IN IF r.threw THEN Put(b, thumbnailElement, r) ELSE Put(b, thumbnailElement, Ok(e2))

RECURSIVE BindThumbnails(_, _, _, _, _)
BindThumbnails(b, c, thumbnails, n, onThumbnailClick) ==
  IF n > Len(thumbnails) THEN b
  ELSE BindThumbnails(BindThumbnail(b, c, n, thumbnails[n], onThumbnailClick),
                      c, thumbnails, n + 1, onThumbnailClick)

Slice(seq, m) == SubSeq(seq, 1, IF Len(seq) < m THEN Len(seq) ELSE m)

\* The body of attemptBinding once the document is there.
GalleryBinding(els, c, content, onThumbnailClick) ==
  LET b == [els |-> els, err |-> FALSE, methods |-> docMethods[args[c].entity]] IN
  BindThumbnails(BindDescription(BindTitle(b, content), content),
                 c, Slice(content.thumbnails, ThumbLimit), 1, onThumbnailClick)

\* ---------------------------------------------------------------- the host
NoEvent == [given |-> FALSE, methods |-> {}]
NoClick == [entity |-> 0, target |-> "none", invoked |-> << >>, event |-> NoEvent,
            callbackThrows |-> FALSE, stopPropagation |-> 0, preventDefault |-> 0,
            logged |-> 0, escaped |-> 0]

\* The host engine assigns entity.index some time after creation ...
HostAssignsIndex(e) ==
  /\ e \in world \ indexed
  /\ indexed' = indexed \cup {e}
  /\ lastClick' = NoClick
  /\ UNCHANGED sceneVars
  /\ UNCHANGED <<world, docReady, docMethods, elements, writers, object3D, callVars, slideVars, thrown>>

\* ... and creates the panel document some time after that.
HostCreatesDocument(e) ==
  /\ e \in indexed \ docReady
  /\ docReady' = docReady \cup {e}
  /\ lastClick' = NoClick
  /\ UNCHANGED sceneVars
  /\ UNCHANGED <<world, indexed, docMethods, elements, writers, object3D, callVars, slideVars, thrown>>

\* ------------------------------------------------------------ polling loops
\* The binding, set-up or timer callback of call c has just run.
Wrote(c) == Append(SelectSeq(writers, LAMBDA d : d # c), c)

NoContent == [title |-> NoText, description |-> NoText, thumbnails |-> << >>, image |-> NoSrc]
NoArgs == [kind |-> "none", entity |-> 0, content |-> NoContent, onThumbnailClick |-> FALSE,
           maxAttempts |-> 0, images |-> << >>, imagesGiven |-> TRUE]

\* The next free call slot.
FreeSlot(c) == pc[c] = "idle" /\ \A d \in 1..(c - 1) : pc[d] # "idle"

\* A mutation of RetryOrWarn: the bound is tested with <= instead of <.
RetryOrWarnOffByOne(c, k, maxAttempts) ==
  IF k <= maxAttempts
  THEN /\ attempt' = [attempt EXCEPT ![c] = k + 1]
       /\ pc' = [pc EXCEPT ![c] = "attempt"]
       /\ UNCHANGED warned
  ELSE /\ warned' = [warned EXCEPT ![c] = TRUE]
       /\ pc' = [pc EXCEPT ![c] = "done"]
       /\ attempt' = [attempt EXCEPT ![c] = k]

\* Attempt k found nothing: if (attempt < maxAttempts) schedule attempt + 1,
\* else warn; return.
RetryOrWarn(c, k, maxAttempts) ==
  IF k < maxAttempts
  THEN /\ attempt' = [attempt EXCEPT ![c] = k + 1]
       /\ pc' = [pc EXCEPT ![c] = "attempt"]
       /\ UNCHANGED warned
  ELSE /\ warned' = [warned EXCEPT ![c] = TRUE]
       /\ pc' = [pc EXCEPT ![c] = "done"]
       /\ attempt' = [attempt EXCEPT ![c] = k]

\* bindGalleryContent(entity, content, onThumbnailClick, maxAttempts): schedules
\* requestAnimationFrame(() => requestAnimationFrame(() => attemptBinding(0))).
bindGalleryContent(c, e, content, onThumbnailClick, maxAttempts) ==
  /\ FreeSlot(c)
  /\ e \in world
  /\ pc' = [pc EXCEPT ![c] = "raf"]
  /\ args' = [args EXCEPT ![c] = [NoArgs EXCEPT !.kind = "gallery", !.entity = e,
                                  !.content = content,
                                  !.onThumbnailClick = onThumbnailClick,
                                  !.maxAttempts = maxAttempts]]
  /\ returned' = [returned EXCEPT ![c] = Undefined]
  /\ lastClick' = NoClick
  /\ UNCHANGED sceneVars
  /\ UNCHANGED <<hostVars, elements, writers, object3D, attempt, attemptsRun, bound, warned,
                 caught, slideVars, thrown>>

\* The outer frame callback schedules the inner one, which calls attemptBinding(0).
galleryOuterFrame(c) ==
  /\ pc[c] = "raf"
  /\ args[c].kind = "gallery"
  /\ pc' = [pc EXCEPT ![c] = "attempt"]
  /\ lastClick' = NoClick
  /\ UNCHANGED sceneVars
  /\ UNCHANGED <<hostVars, elements, writers, object3D, attempt, args, attemptsRun, bound, warned,
                 caught, returned, slideVars, thrown>>

\* A mutation of attemptBinding: after binding it schedules the next attempt.
attemptBindingKeepsPolling(c) ==
  /\ pc[c] = "attempt"
  /\ args[c].kind = "gallery"
  /\ attemptsRun' = [attemptsRun EXCEPT ![c] = @ + 1]
  /\ LET e == args[c].entity IN
     IF e \notin indexed \/ e \notin docReady
     THEN /\ RetryOrWarn(c, attempt[c], args[c].maxAttempts)
          /\ UNCHANGED <<elements, writers, bound, caught>>
     ELSE LET b == GalleryBinding(elements[e], c, args[c].content, args[c].onThumbnailClick) IN
          /\ elements' = [elements EXCEPT ![e] = b.els]
          /\ writers' = Wrote(c)
          /\ caught' = [caught EXCEPT ![c] = b.err]
          /\ bound' = [bound EXCEPT ![c] = @ + 1]
          /\ RetryOrWarn(c, attempt[c], args[c].maxAttempts)
  /\ lastClick' = NoClick
  /\ UNCHANGED sceneVars
  /\ UNCHANGED <<hostVars, object3D, args, returned, slideVars, thrown>>

\* attemptBinding(attempt) of bindGalleryContent, run by a frame callback.
attemptBinding(c) ==
  /\ pc[c] = "attempt"
  /\ args[c].kind = "gallery"
  /\ attemptsRun' = [attemptsRun EXCEPT ![c] = @ + 1]
  /\ LET e == args[c].entity IN
     IF e \notin indexed \/ e \notin docReady
     THEN /\ RetryOrWarn(c, attempt[c], args[c].maxAttempts)
          /\ UNCHANGED <<elements, writers, bound, caught>>
     ELSE LET b == GalleryBinding(elements[e], c, args[c].content, args[c].onThumbnailClick) IN
          /\ elements' = [elements EXCEPT ![e] = b.els]
          /\ writers' = Wrote(c)
          /\ caught' = [caught EXCEPT ![c] = b.err]
          /\ bound' = [bound EXCEPT ![c] = @ + 1]
          /\ pc' = [pc EXCEPT ![c] = "done"]
          /\ UNCHANGED <<attempt, warned>>
  /\ lastClick' = NoClick
  /\ UNCHANGED sceneVars
  /\ UNCHANGED <<hostVars, object3D, args, returned, slideVars, thrown>>

\* The sources the handlers attached to an element report when it is clicked.
Invoked(el) ==
  [i \in 1..Len(el.clickListeners) |-> el.clickListeners[i].src]
    \o (IF el.onclick # NoHandler THEN <<el.onclick.src>> ELSE << >>)

\* The events a host may pass to a click handler: none at all, or one that
\* offers some of stopPropagation and preventDefault.
Events ==
  {NoEvent} \cup [given : {TRUE}, methods : SUBSET {"stopPropagation", "preventDefault"}]
FullEvent == [given |-> TRUE, methods |-> {"stopPropagation", "preventDefault"}]

\* A mutation of clickHandler: an exception of the callback is logged and
\* thrown again.
clickHandlerRethrows(h, event, callbackThrows) ==
  [stopPropagation |-> IF event.given /\ "stopPropagation" \in event.methods THEN 1 ELSE 0,
   preventDefault |-> IF event.given /\ "preventDefault" \in event.methods THEN 1 ELSE 0,
   invoked |-> <<h.src>>,
   logged |-> IF callbackThrows THEN 1 ELSE 0,
   escaped |-> IF callbackThrows THEN 1 ELSE 0]

\* clickHandler(event) of one thumbnail: what one run of it does.  The calls
\* made on the event, the callback invocation onThumbnailClick(imageSrc), and
\* the catch around it, which logs.
clickHandler(h, event, callbackThrows) ==
  [stopPropagation |-> IF event.given /\ "stopPropagation" \in event.methods THEN 1 ELSE 0,
   preventDefault |-> IF event.given /\ "preventDefault" \in event.methods THEN 1 ELSE 0,
   invoked |-> <<h.src>>,
   logged |-> IF callbackThrows THEN 1 ELSE 0,
   escaped |-> 0]

\* The handlers attached to an element, in the order the host runs them.
Handlers(el) == el.clickListeners \o (IF el.onclick # NoHandler THEN <<el.onclick>> ELSE << >>)

RECURSIVE RunHandlers(_, _, _, _, _)
RunHandlers(click, handlers, i, event, callbackThrows) ==
  IF i > Len(handlers) THEN click
  ELSE LET r == clickHandler(handlers[i], event, callbackThrows) IN
       RunHandlers([click EXCEPT !.invoked = @ \o r.invoked,
                                 !.stopPropagation = @ + r.stopPropagation,
                                 !.preventDefault = @ + r.preventDefault,
                                 !.logged = @ + r.logged,
                                 !.escaped = @ + r.escaped],
                   handlers, i + 1, event, callbackThrows)

\* The host dispatches a click on a thumbnail with the given event; every
\* attached handler runs, and the supplied callback may throw.
Dispatch(e, id, event, callbackThrows) ==
  /\ e \in docReady
  /\ id \in DOMAIN elements[e]
  /\ LET click == RunHandlers([NoClick EXCEPT !.entity = e, !.target = id, !.event = event,
                                              !.callbackThrows = callbackThrows],
                              Handlers(elements[e][id]), 1, event, callbackThrows)
     IN /\ lastClick' = click
        /\ thrown' = IF click.escaped > 0 THEN thrown \cup {<<"click", 0>>} ELSE thrown
  /\ UNCHANGED sceneVars
  /\ UNCHANGED <<hostVars, elements, writers, object3D, callVars, slideVars>>

\* The user clicks a thumbnail: every attached click listener and the onclick
\* property run, each calling onThumbnailClick(imageSrc).
Click(e, id) == Dispatch(e, id, FullEvent, FALSE)

\* -------------------------------------------------------------- panel binder
\* The body of bindPanelContent's attemptBinding once the document is there:
\* title and description by getElementById only, the image by setProperties only.
PanelBinding(els, content) ==
  LET t == IF content.title # NoText /\ getElementById(els, "panel-title")
           THEN Put(Binding(els), "panel-title", SetText(els["panel-title"], content.title))
           ELSE Binding(els)
      d == IF ~t.err /\ content.description # NoText /\ getElementById(t.els, "panel-description")
           THEN Put(t, "panel-description",
                    SetText(t.els["panel-description"], content.description))
           ELSE t
      imageSrc == IF content.image = NoSrc THEN Placeholder ELSE content.image
  IN IF ~d.err /\ getElementById(d.els, "panel-image")
          /\ Has(d.els["panel-image"], "setProperties")
     THEN IF Throws(d.els["panel-image"], "setProperties")
          THEN [d EXCEPT !.err = TRUE]
          ELSE [d EXCEPT !.els["panel-image"] =
                           [@ EXCEPT !.src = imageSrc, !.via = "setProperties"]]
     ELSE d

\* attemptBinding(k) of bindPanelContent.
PanelAttempt(c, e, content, maxAttempts, k) ==
  /\ attemptsRun' = [attemptsRun EXCEPT ![c] = @ + 1]
  /\ IF e \notin docReady
     THEN /\ RetryOrWarn(c, k, maxAttempts)
          /\ UNCHANGED <<elements, writers, bound, caught>>
     ELSE LET b == PanelBinding(elements[e], content) IN
          /\ elements' = [elements EXCEPT ![e] = b.els]
          /\ writers' = Wrote(c)
          /\ caught' = [caught EXCEPT ![c] = b.err]
          /\ bound' = [bound EXCEPT ![c] = @ + 1]
          /\ pc' = [pc EXCEPT ![c] = "done"]
          /\ attempt' = [attempt EXCEPT ![c] = k]
          /\ UNCHANGED warned

\* A mutation of bindPanelContent: the first attempt is left to a timeout.
bindPanelContentDeferred(c, e, content, maxAttempts) ==
  /\ FreeSlot(c)
  /\ e \in world
  /\ args' = [args EXCEPT ![c] = [NoArgs EXCEPT !.kind = "panel", !.entity = e,
                                  !.content = content, !.maxAttempts = maxAttempts]]
  /\ pc' = [pc EXCEPT ![c] = "attempt"]
  /\ attempt' = [attempt EXCEPT ![c] = 0]
  /\ returned' = [returned EXCEPT ![c] = Undefined]
  /\ lastClick' = NoClick
  /\ UNCHANGED sceneVars
  /\ UNCHANGED <<hostVars, elements, writers, object3D, attemptsRun, bound, warned, caught,
                 slideVars, thrown>>

\* bindPanelContent(entity, content, maxAttempts) runs attemptBinding() itself.
bindPanelContent(c, e, content, maxAttempts) ==
  /\ FreeSlot(c)
  /\ e \in world
  /\ args' = [args EXCEPT ![c] = [NoArgs EXCEPT !.kind = "panel", !.entity = e,
                                  !.content = content, !.maxAttempts = maxAttempts]]
  /\ PanelAttempt(c, e, content, maxAttempts, 0)
  /\ returned' = [returned EXCEPT ![c] = Undefined]
  /\ lastClick' = NoClick
  /\ UNCHANGED sceneVars
  /\ UNCHANGED <<hostVars, object3D, slideVars, thrown>>

\* setTimeout(() => attemptBinding(attempt + 1), 50) comes due.
panelTimeout(c) ==
  /\ pc[c] = "attempt"
  /\ args[c].kind = "panel"
  /\ PanelAttempt(c, args[c].entity, args[c].content, args[c].maxAttempts, attempt[c])
  /\ lastClick' = NoClick
  /\ UNCHANGED sceneVars
  /\ UNCHANGED <<hostVars, object3D, args, returned, slideVars, thrown>>

\* ----------------------------------------------------------------- slideshow
\* document.getElementById?.(imageElementId), else querySelectorAll?.("img")[0]
FindImageElement(els, imageElementId) ==
  IF getElementById(els, imageElementId) THEN imageElementId
  ELSE IF \E i \in 1..Len(ImgOrder) : ImgOrder[i] \in DOMAIN els
       THEN ImgOrder[CHOOSE i \in 1..Len(ImgOrder) :
                       /\ ImgOrder[i] \in DOMAIN els
                       /\ \A j \in 1..(i - 1) : ImgOrder[j] \notin DOMAIN els]
       ELSE NoElement

\* updateImage(imagePath): the element after it, whether the source was assigned
\* and whether an exception left it.  handleError is a new closure each time, so
\* removeEventListener("error", handleError) finds nothing of the earlier cycles.
\* Only the setProperties branch sits in a try; the other two call
\* imageElement.addEventListener unguarded.
UpdateImage(el, handleError, imagePath) ==
  LET cleared == IF Has(el, "removeEventListener")
                 THEN [el EXCEPT !.errorListeners = @ \ {handleError}]
                 ELSE el
      listen(x) == AddErrorListener(x, handleError)
  IN IF Has(el, "setProperties")
     THEN IF Throws(el, "setProperties")
          THEN [el |-> cleared, assigned |-> FALSE, threw |-> FALSE]
          ELSE [el |-> listen([cleared EXCEPT !.src = imagePath, !.via = "setProperties"]),
                assigned |-> TRUE, threw |-> FALSE]
     ELSE IF Has(el, "src")
     THEN IF Throws(el, "src")
          THEN [el |-> cleared, assigned |-> FALSE, threw |-> TRUE]
          ELSE [el |-> listen([cleared EXCEPT !.src = imagePath, !.via = "src"]),
                assigned |-> TRUE, threw |-> ~Has(el, "addEventListener")]
     ELSE IF Has(el, "setAttribute")
     THEN [el |-> listen([cleared EXCEPT !.src = imagePath, !.via = "setAttribute"]),
           assigned |-> TRUE, threw |-> ~Has(el, "addEventListener")]
     ELSE [el |-> cleared, assigned |-> FALSE, threw |-> FALSE]

\* attemptSetup(k) of createSlideshow; who names the caller an exception reaches.
AttemptSetup(c, e, images, maxAttempts, k, who) ==
  /\ attemptsRun' = [attemptsRun EXCEPT ![c] = @ + 1]
  /\ IF e \notin docReady
     THEN /\ RetryOrWarn(c, k, maxAttempts)
          /\ UNCHANGED <<elements, writers, bound, slideVars, thrown>>
     ELSE LET found == FindImageElement(elements[e], "panel-image") IN
          /\ imageElement' = [imageElement EXCEPT ![c] = found]
          /\ IF found = NoElement
             THEN /\ RetryOrWarn(c, k, maxAttempts)
                  /\ UNCHANGED <<elements, writers, bound, currentIndex, slideshowInterval,
                                 firings, lateFirings, shown, thrown>>
             ELSE LET u == UpdateImage(elements[e][found], [call |-> c, n |-> 0], images[1]) IN
                  /\ elements' = [elements EXCEPT ![e][found] = u.el]
                  /\ writers' = Wrote(c)
                  /\ shown' = [shown EXCEPT ![c] = IF u.assigned THEN Append(@, images[1]) ELSE @]
                  /\ bound' = [bound EXCEPT ![c] = @ + 1]
                  /\ pc' = [pc EXCEPT ![c] = "done"]
                  /\ attempt' = [attempt EXCEPT ![c] = k]
                  /\ slideshowInterval' = [slideshowInterval EXCEPT ![c] = ~u.threw]
                  /\ thrown' = IF u.threw THEN thrown \cup {<<who, c>>} ELSE thrown
                  /\ UNCHANGED <<warned, currentIndex, firings, lateFirings>>

\* createSlideshow(entity, undefined, options): the image list is missing.
createSlideshowMissing(c, e, maxAttempts) ==
  /\ FreeSlot(c)
  /\ e \in world
  /\ args' = [args EXCEPT ![c] = [NoArgs EXCEPT !.kind = "slideshow", !.entity = e,
                                  !.imagesGiven = FALSE, !.maxAttempts = maxAttempts]]
  /\ pc' = [pc EXCEPT ![c] = "done"]
  /\ returned' = [returned EXCEPT ![c] = "null"]
  /\ lastClick' = NoClick
  /\ UNCHANGED sceneVars
  /\ UNCHANGED <<hostVars, elements, writers, object3D, attempt, attemptsRun, bound, warned, caught,
                 slideVars, thrown>>

\* A mutation of createSlideshow: the cleanup closure is stored before the
\* image list is validated.
createSlideshowStoresFirst(c, e, images, maxAttempts) ==
  /\ FreeSlot(c)
  /\ e \in world
  /\ args' = [args EXCEPT ![c] = [NoArgs EXCEPT !.kind = "slideshow", !.entity = e,
                                  !.images = images, !.maxAttempts = maxAttempts]]
  /\ lastClick' = NoClick
  /\ UNCHANGED sceneVars
  /\ UNCHANGED <<hostVars, caught>>
  /\ IF object3D[e].isNull
     THEN /\ pc' = [pc EXCEPT ![c] = "done"]
          /\ thrown' = thrown \cup {<<"createSlideshow", c>>}
          /\ returned' = [returned EXCEPT ![c] = "threw"]
          /\ UNCHANGED <<elements, writers, object3D, attempt, attemptsRun, bound, warned, slideVars>>
     ELSE IF images = << >>
     THEN /\ pc' = [pc EXCEPT ![c] = "done"]
          /\ object3D' = [object3D EXCEPT ![e].slideshowCleanup = c]
          /\ returned' = [returned EXCEPT ![c] = "null"]
          /\ UNCHANGED <<elements, writers, attempt, attemptsRun, bound, warned, slideVars, thrown>>
     ELSE /\ object3D' = [object3D EXCEPT ![e].slideshowCleanup = c]
          /\ AttemptSetup(c, e, images, maxAttempts, 0, "createSlideshow")
          /\ returned' = [returned EXCEPT ![c] = IF thrown' # thrown THEN "threw" ELSE "entity"]

\* createSlideshow(entity, images, { maxAttempts }): validates images, stores the
\* cleanup closure on entity.object3D.userData, then runs attemptSetup() itself
\* and returns the entity.
createSlideshow(c, e, images, maxAttempts) ==
  /\ FreeSlot(c)
  /\ e \in world
  /\ args' = [args EXCEPT ![c] = [NoArgs EXCEPT !.kind = "slideshow", !.entity = e,
                                  !.images = images, !.maxAttempts = maxAttempts]]
  /\ lastClick' = NoClick
  /\ UNCHANGED sceneVars
  /\ UNCHANGED <<hostVars, caught>>
  /\ IF images = << >>
     THEN /\ pc' = [pc EXCEPT ![c] = "done"]
          /\ returned' = [returned EXCEPT ![c] = "null"]
          /\ UNCHANGED <<elements, writers, object3D, attempt, attemptsRun, bound, warned,
                         slideVars, thrown>>
     ELSE IF object3D[e].isNull
     THEN /\ pc' = [pc EXCEPT ![c] = "done"]
          /\ thrown' = thrown \cup {<<"createSlideshow", c>>}
          /\ returned' = [returned EXCEPT ![c] = "threw"]
          /\ UNCHANGED <<elements, writers, object3D, attempt, attemptsRun, bound, warned, slideVars>>
     ELSE /\ object3D' = [object3D EXCEPT ![e].slideshowCleanup = c]
          /\ AttemptSetup(c, e, images, maxAttempts, 0, "createSlideshow")
          /\ returned' = [returned EXCEPT ![c] = IF thrown' # thrown THEN "threw" ELSE "entity"]

\* requestAnimationFrame(() => attemptSetup(attempt + 1)) runs.
slideshowFrame(c) ==
  /\ pc[c] = "attempt"
  /\ args[c].kind = "slideshow"
  /\ AttemptSetup(c, args[c].entity, args[c].images, args[c].maxAttempts, attempt[c], "frame")
  /\ lastClick' = NoClick
  /\ UNCHANGED sceneVars
  /\ UNCHANGED <<hostVars, object3D, args, caught, returned>>

\* A mutation of NextIndex: the index wraps one position early.
NextIndexEarlyWrap(i, n) == IF i + 1 >= n - 1 THEN 0 ELSE i + 1

\* currentIndex = (currentIndex + 1) % images.length
NextIndex(i, n) == (i + 1) % n

\* The setInterval callback: advance the circular index and update the image.
intervalFires(c, cap) ==
  /\ slideshowInterval[c]
  /\ firings[c] < cap
  /\ LET e == args[c].entity
         images == args[c].images
         next == NextIndex(currentIndex[c], Len(images))
         u == UpdateImage(elements[e][imageElement[c]], [call |-> c, n |-> firings[c] + 1],
                          images[next + 1])
     IN /\ currentIndex' = [currentIndex EXCEPT ![c] = next]
        /\ elements' = [elements EXCEPT ![e][imageElement[c]] = u.el]
        /\ writers' = Wrote(c)
        /\ shown' = [shown EXCEPT ![c] = IF u.assigned THEN Append(@, images[next + 1]) ELSE @]
        /\ thrown' = IF u.threw THEN thrown \cup {<<"interval", c>>} ELSE thrown
  /\ firings' = [firings EXCEPT ![c] = @ + 1]
  /\ lateFirings' = [lateFirings EXCEPT ![c] = IF disposals > 0 THEN @ + 1 ELSE @]
  /\ lastClick' = NoClick
  /\ UNCHANGED sceneVars
  /\ UNCHANGED <<hostVars, object3D, callVars, imageElement, slideshowInterval>>

\* A mutation of slideshowCleanup: the timer is not cleared.
slideshowCleanupLeaks(intervals, c) == intervals

\* entity.object3D.userData.slideshowCleanup of call c:
\* if (slideshowInterval) { clearInterval(slideshowInterval); slideshowInterval = null }
slideshowCleanup(intervals, c) == [intervals EXCEPT ![c] = FALSE]

\* stopSlideshow(entity)
stopSlideshow(e) ==
  /\ e \in world
  /\ lastClick' = NoClick
  /\ UNCHANGED sceneVars
  /\ IF object3D[e].isNull
     THEN /\ thrown' = thrown \cup {<<"stopSlideshow", 0>>}
          /\ UNCHANGED <<object3D, slideshowInterval>>
     ELSE IF object3D[e].slideshowCleanup # 0
     THEN /\ slideshowInterval' = slideshowCleanup(slideshowInterval, object3D[e].slideshowCleanup)
          /\ object3D' = [object3D EXCEPT ![e].slideshowCleanup = 0]
          /\ UNCHANGED thrown
     ELSE UNCHANGED <<object3D, slideshowInterval, thrown>>
  /\ UNCHANGED <<hostVars, elements, writers, callVars, imageElement, currentIndex, firings,
                 lateFirings, shown>>

\* --------------------------------------------------------------------- scenes
Navs == 1..MaxNavs

\* No binding frame is pending for the entity.
NoPanel == [title |-> NoText, description |-> NoText, given |-> {}, thumbnails |-> << >>,
            images |-> << >>, image |-> NoSrc]
NoFrame == [stage |-> "none", panel |-> NoPanel, index |-> 0]

\* No scene data was fetched yet.
NoSceneData == [id |-> "none", panels |-> << >>, teleports |-> << >>]

\* No step of a teardown threw.
NoTeardownFault == [index |-> 0, step |-> "none"]

\* constructor(world, sceneManager): this.entities = []; nothing navigated yet.
InitScene ==
  /\ entities = << >>
  /\ removed = [e \in Entities |-> 0]
  /\ removeCalls = [e \in Entities |-> 0]
  /\ destroyed = [e \in Entities |-> 0]
  /\ disposals = 0
  /\ teardownFault = NoTeardownFault
  /\ navPc = [n \in Navs |-> "idle"]
  /\ navTarget = [n \in Navs |-> "none"]
  /\ navResult = [n \in Navs |-> "none"]
  /\ loadScene = << >>
  /\ navLog = [n \in Navs |-> {}]
  /\ panelFrames = [e \in Entities |-> NoFrame]
  /\ sceneData = NoSceneData
  /\ portals = << >>

\* world.createTransformEntity(...): the host engine makes the next entity and
\* parents its object3D to the active level root or to the scene itself.
createTransformEntity(e, parent) ==
  /\ e \in Entities \ world
  /\ \A d \in 1..(e - 1) : d \in world
  /\ world' = world \cup {e}
  /\ object3D' = [object3D EXCEPT ![e] = NewObject3D(parent)]
  /\ lastClick' = NoClick
  /\ UNCHANGED <<indexed, docReady, docMethods, elements, writers, callVars, slideVars, thrown, sceneVars>>

\* trackEntity(entity): this.entities.push(entity)
trackEntity(e) ==
  /\ e \in world
  /\ Len(entities) < MaxTracked
  /\ entities' = Append(entities, e)
  /\ lastClick' = NoClick
  /\ UNCHANGED <<hostVars, elements, writers, object3D, callVars, slideVars, thrown,
                 removed, removeCalls, destroyed, disposals, teardownFault, navVars, panelFrames,
                 layoutVars>>

\* The scene graph and the counters while dispose() walks the tracked list.
Graph == [object3D |-> object3D, removed |-> removed, removeCalls |-> removeCalls,
          destroyed |-> destroyed]

\* parent.remove(object3D): the object leaves the graph if it is a child of
\* that parent, which it is whenever object3D.parent is set.
ParentRemove(g, e) ==
  IF g.object3D[e].parent # "none"
  THEN [g EXCEPT !.object3D[e].parent = "none", !.removed[e] = @ + 1,
                 !.removeCalls[e] = @ + 1]
  ELSE g

\* world.scene.remove(object3D): the object leaves the graph only if it is
\* still a direct child of the scene.
SceneRemove(g, e) ==
  IF g.object3D[e].parent = "scene"
  THEN [g EXCEPT !.object3D[e].parent = "none", !.removed[e] = @ + 1,
                 !.removeCalls[e] = @ + 1]
  ELSE [g EXCEPT !.removeCalls[e] = @ + 1]

\* A mutation of DisposeEntity: the object is not taken from its parent.
DisposeEntitySkipsParent(g, e) ==
  LET h == IF g.object3D[e].isNull THEN g
           ELSE [SceneRemove(g, e) EXCEPT !.object3D[e] = NullObject3D]
  IN [h EXCEPT !.destroyed[e] = @ + 1]

\* The body of this.entities.forEach in dispose().
DisposeEntity(g, e) ==
  LET h == IF g.object3D[e].isNull THEN g
           ELSE [SceneRemove(ParentRemove(g, e), e) EXCEPT !.object3D[e] = NullObject3D]
  IN [h EXCEPT !.destroyed[e] = @ + 1]

RECURSIVE DisposeAll(_, _, _)
DisposeAll(g, tracked, i) ==
  IF i > Len(tracked) THEN g ELSE DisposeAll(DisposeEntity(g, tracked[i]), tracked, i + 1)

\* A mutation of dispose: the timers of all slideshows are cleared as well.
disposeClearsTimers ==
  /\ disposals < MaxDisposals
  /\ LET g == DisposeAll(Graph, entities, 1) IN
     /\ object3D' = g.object3D
     /\ removed' = g.removed
     /\ removeCalls' = g.removeCalls
     /\ destroyed' = g.destroyed
  /\ entities' = << >>
  /\ disposals' = disposals + 1
  /\ teardownFault' = NoTeardownFault
  /\ slideshowInterval' = [c \in Calls |-> FALSE]
  /\ lastClick' = NoClick
  /\ UNCHANGED <<hostVars, elements, writers, callVars, imageElement, currentIndex, firings,
                 lateFirings, shown, thrown, navVars, panelFrames, layoutVars>>

\* dispose(): every tracked entity is torn down, then this.entities = [].
dispose ==
  /\ disposals < MaxDisposals
  /\ LET g == DisposeAll(Graph, entities, 1) IN
     /\ object3D' = g.object3D
     /\ removed' = g.removed
     /\ removeCalls' = g.removeCalls
     /\ destroyed' = g.destroyed
  /\ entities' = << >>
  /\ disposals' = disposals + 1
  /\ teardownFault' = NoTeardownFault
  /\ lastClick' = NoClick
  /\ UNCHANGED <<hostVars, elements, writers, callVars, slideVars, thrown, navVars, panelFrames,
                 layoutVars>>

\* The calls of the forEach body that can throw: parent.remove(object3D),
\* world.scene.remove(object3D), object3D.dispose() and entity.destroy().
TeardownSteps == {"parent.remove", "scene.remove", "object3D.dispose", "destroy"}

\* The forEach body for entity e when the call named step throws: the calls
\* before it take effect, the ones after it are not made.  threw is FALSE
\* when the body does not reach that call.
Teardown(g, e, step) ==
  LET live == ~g.object3D[e].isNull
      t1 == live /\ g.object3D[e].parent # "none" /\ step = "parent.remove"
      g1 == IF live /\ ~t1 THEN ParentRemove(g, e) ELSE g
      t2 == live /\ ~t1 /\ step = "scene.remove"
      g2 == IF live /\ ~t1 /\ ~t2 THEN SceneRemove(g1, e) ELSE g1
      t3 == live /\ ~t1 /\ ~t2 /\ step = "object3D.dispose"
      g3 == IF live /\ ~t1 /\ ~t2 /\ ~t3
            THEN [g2 EXCEPT !.object3D[e] = NullObject3D] ELSE g2
      t4 == ~t1 /\ ~t2 /\ ~t3 /\ step = "destroy"
      g4 == IF ~t1 /\ ~t2 /\ ~t3 /\ ~t4 THEN [g3 EXCEPT !.destroyed[e] = @ + 1] ELSE g3
  IN [g |-> g4, threw |-> t1 \/ t2 \/ t3 \/ t4]

\* A mutation of disposeThrowing: the exception of one entity's teardown is
\* swallowed, the remaining entities are torn down and the list is cleared.
disposeIsolatesFailure(fault) ==
  /\ disposals < MaxDisposals
  /\ fault.index \in 1..Len(entities)
  /\ LET before == DisposeAll(Graph, SubSeq(entities, 1, fault.index - 1), 1)
         failing == Teardown(before, entities[fault.index], fault.step)
         g == DisposeAll(failing.g, SubSeq(entities, fault.index + 1, Len(entities)), 1)
     IN /\ failing.threw
        /\ object3D' = g.object3D
        /\ removed' = g.removed
        /\ removeCalls' = g.removeCalls
        /\ destroyed' = g.destroyed
  /\ entities' = << >>
  /\ disposals' = disposals + 1
  /\ teardownFault' = fault
  /\ lastClick' = NoClick
  /\ UNCHANGED <<hostVars, elements, writers, callVars, slideVars, thrown, navVars, panelFrames,
                 layoutVars>>

\* dispose() when a call in the teardown of the entity at fault.index throws:
\* forEach has no try around its body, so the exception ends the loop and
\* leaves dispose() before this.entities = [].
disposeThrowing(fault) ==
  /\ disposals < MaxDisposals
  /\ fault.index \in 1..Len(entities)
  /\ LET before == DisposeAll(Graph, SubSeq(entities, 1, fault.index - 1), 1)
         failing == Teardown(before, entities[fault.index], fault.step)
     IN /\ failing.threw
        /\ object3D' = failing.g.object3D
        /\ removed' = failing.g.removed
        /\ removeCalls' = failing.g.removeCalls
        /\ destroyed' = failing.g.destroyed
  /\ thrown' = thrown \cup {<<"dispose", disposals + 1>>}
  /\ disposals' = disposals + 1
  /\ teardownFault' = fault
  /\ lastClick' = NoClick
  /\ UNCHANGED <<hostVars, elements, writers, callVars, slideVars, entities, navVars,
                 panelFrames, layoutVars>>

\* ------------------------------------------------------------- gallery scene
\* A panel record of the scene data; given names the optional arrays it has.
\* const thumbnails = panel.thumbnails || panel.images || []
PanelThumbnails(panel) ==
  IF "thumbnails" \in panel.given THEN panel.thumbnails
  ELSE IF "images" \in panel.given THEN panel.images
  ELSE << >>

Fill(n, x) == [i \in 1..n |-> x]

\* A mutation of ThumbnailList: a short list is padded with its last entry.
ThumbnailListPadsLast(panel) ==
  LET thumbnails == PanelThumbnails(panel) IN
  IF Len(thumbnails) >= PanelThumbs THEN SubSeq(thumbnails, 1, PanelThumbs)
  ELSE IF Len(thumbnails) > 0
  THEN thumbnails \o Fill(PanelThumbs - Len(thumbnails), thumbnails[Len(thumbnails)])
  ELSE IF panel.image # NoSrc THEN Fill(PanelThumbs, panel.image)
  ELSE << >>

\* thumbnailList of renderPanels.
ThumbnailList(panel) ==
  LET thumbnails == PanelThumbnails(panel) IN
  IF Len(thumbnails) >= PanelThumbs THEN SubSeq(thumbnails, 1, PanelThumbs)
  ELSE IF Len(thumbnails) > 0
  THEN thumbnails \o Fill(PanelThumbs - Len(thumbnails), thumbnails[1])
  ELSE IF panel.image # NoSrc THEN Fill(PanelThumbs, panel.image)
  ELSE << >>

\* Lengths are counted in twentieths of a metre, so that the spacings 1.9 and
\* 1.8 and the halved row widths are integers.
PanelSpacing == 38       \* const spacing = 1.9
TeleportSpacing == 36    \* const spacing = 1.8

\* A mutation of XOffset: the row width is not halved.
XOffsetNotHalved(n, spacing, index) ==
  LET offsetStart == IF n > 1 THEN -((n - 1) * spacing) ELSE 0
  IN offsetStart + index * spacing

\* offsetStart = n > 1 ? -((n - 1) * spacing) / 2 : 0
\* xOffset = offsetStart + index * spacing, for the item at index (from 0) of n.
XOffset(n, spacing, index) ==
  LET offsetStart == IF n > 1 THEN -(((n - 1) * spacing) \div 2) ELSE 0
  IN offsetStart + index * spacing

\* The host's entities and the scene's own fields while init() runs; threw
\* says that an exception is unwinding init().
Building == [world |-> world, object3D |-> object3D, entities |-> entities,
             panelFrames |-> panelFrames, portals |-> portals, threw |-> FALSE]

\* The step of creating one panel or portal that raises an exception, if any.
FaultSteps == {"createTransformEntity", "addComponent", "position.set"}
NoFault == [index |-> 0, step |-> "none"]
StepAt(fault, index) == IF fault.index = index THEN fault.step ELSE "none"

\* this.world.createTransformEntity(): the host engine makes the next entity
\* under the active level root.
NextEntity(s) == Cardinality(s.world) + 1
Created(s) ==
  [s EXCEPT !.world = @ \cup {NextEntity(s)},
            !.object3D[NextEntity(s)] = NewObject3D("levelRoot")]

\* The body of displayPanels.forEach for the panel at index: inside its try
\* the entity is created, given its component, positioned, tracked, and a frame
\* callback is scheduled for its binding; the catch logs and goes on.
RenderPanel(s, displayPanels, index, step) ==
  LET e == NextEntity(s)
      xOffset == XOffset(Len(displayPanels), PanelSpacing, index)
  IN IF step = "createTransformEntity" THEN s
     ELSE IF step \in {"addComponent", "position.set"} THEN Created(s)
     ELSE [Created(s) EXCEPT !.object3D[e].x = xOffset,
                             !.entities = Append(@, e),
                             !.panelFrames[e] = [stage |-> "outer",
                                                 panel |-> displayPanels[index + 1],
                                                 index |-> index]]

RECURSIVE RenderPanelsFrom(_, _, _, _)
RenderPanelsFrom(s, displayPanels, index, fault) ==
  IF index >= Len(displayPanels) THEN s
  ELSE RenderPanelsFrom(RenderPanel(s, displayPanels, index, StepAt(fault, index)),
                        displayPanels, index + 1, fault)

\* renderPanels(panels): the first two panels are rendered.
renderPanels(s, panels, fault) ==
  RenderPanelsFrom(s, Slice(panels, DisplayPanels), 0, fault)

\* createPortal(label, xOffset, targetSceneId): nothing catches an exception
\* here; the click callback bound last navigates to targetSceneId.
createPortal(s, xOffset, targetSceneId, step) ==
  LET e == NextEntity(s) IN
  IF step = "createTransformEntity" THEN [s EXCEPT !.threw = TRUE]
  ELSE IF step \in {"addComponent", "position.set"} THEN [Created(s) EXCEPT !.threw = TRUE]
  ELSE [Created(s) EXCEPT !.object3D[e].x = xOffset,
                          !.entities = Append(@, e),
                          !.portals = Append(@, [entity |-> e, target |-> targetSceneId])]

\* teleports.filter((t) => t.target !== "main_hall")
ForwardTeleports(teleports) == SelectSeq(teleports, LAMBDA t : t.target # "main_hall")

RECURSIVE CreatePortalsFrom(_, _, _, _)
CreatePortalsFrom(s, forwardTeleports, index, fault) ==
  IF index >= Len(forwardTeleports) \/ s.threw THEN s
  ELSE CreatePortalsFrom(
         createPortal(s, XOffset(Len(forwardTeleports), TeleportSpacing, index),
                      forwardTeleports[index + 1].target, StepAt(fault, index)),
         forwardTeleports, index + 1, fault)

\* renderTeleports(teleports) of the gallery scene.
renderTeleports(s, teleports, fault) ==
  CreatePortalsFrom(s, ForwardTeleports(teleports), 0, fault)

\* The scene's fields and the host's entities after init() built s.
Built(s) ==
  /\ world' = s.world
  /\ object3D' = s.object3D
  /\ entities' = s.entities
  /\ panelFrames' = s.panelFrames
  /\ portals' = s.portals
  /\ thrown' = IF s.threw THEN thrown \cup {<<"init", 0>>} ELSE thrown

\* init() is called once, on a scene that was just constructed.
Constructed ==
  /\ world = {}
  /\ entities = << >>
  /\ disposals = 0
  /\ sceneData = NoSceneData
  /\ \A c \in Calls : pc[c] = "idle"
  /\ \A e \in Entities : panelFrames[e].stage = "none"

\* GalleryScene.init(): the panels of the scene data are rendered, then its
\* teleports.  The back button made between the two comes from a component
\* that is not part of these sources and is left out.
GalleryScene_init(panels, teleports, panelFault, portalFault) ==
  /\ Constructed
  /\ Len(Slice(panels, DisplayPanels)) + Len(ForwardTeleports(teleports)) <= MaxEntities
  /\ Len(Slice(panels, DisplayPanels)) + Len(ForwardTeleports(teleports)) <= MaxTracked
  /\ sceneData' = [id |-> "gallery", panels |-> panels, teleports |-> teleports]
  /\ Built(renderTeleports(renderPanels(Building, panels, panelFault), teleports, portalFault))
  /\ lastClick' = NoClick
  /\ UNCHANGED <<indexed, docReady, docMethods, elements, writers, callVars, slideVars,
                 removed, removeCalls, destroyed, disposals, teardownFault, navVars>>

\* MainHallScene.init(): no panel is rendered, and one portal is made at the
\* centre for the first teleport, or for the gallery when there is none.
MainHallScene_init(teleports, fault) ==
  /\ Constructed
  /\ sceneData' = [id |-> "main_hall", panels |-> << >>, teleports |-> teleports]
  /\ Built(createPortal(Building, 0,
                        IF Len(teleports) > 0 THEN teleports[1].target ELSE "gallery",
                        fault.step))
  /\ lastClick' = NoClick
  /\ UNCHANGED <<indexed, docReady, docMethods, elements, writers, callVars, slideVars,
                 removed, removeCalls, destroyed, disposals, teardownFault, navVars>>

\* The outer requestAnimationFrame callback of a panel schedules the inner one.
panelOuterFrame(e) ==
  /\ panelFrames[e].stage = "outer"
  /\ panelFrames' = [panelFrames EXCEPT ![e].stage = "inner"]
  /\ lastClick' = NoClick
  /\ UNCHANGED <<hostVars, elements, writers, object3D, callVars, slideVars, thrown, trackVars, navVars,
                 layoutVars>>

\* The inner callback builds thumbnailList and calls bindGalleryContent(entity,
\* { title, description: panel.description || "", thumbnails: thumbnailList }).
panelInnerFrame(e, c) ==
  /\ panelFrames[e].stage = "inner"
  /\ panelFrames' = [panelFrames EXCEPT ![e].stage = "ran"]
  /\ LET panel == panelFrames[e].panel IN
     /\ FreeSlot(c)
     /\ pc' = [pc EXCEPT ![c] = "raf"]
     /\ args' = [args EXCEPT ![c] =
           [NoArgs EXCEPT !.kind = "gallery", !.entity = e,
                          !.content = [title |-> panel.title,
                                       description |-> panel.description,
                                       thumbnails |-> ThumbnailList(panel),
                                       image |-> NoSrc],
                          !.onThumbnailClick = FALSE,
                          !.maxAttempts = MaxAttempts]]
     /\ returned' = [returned EXCEPT ![c] = Undefined]
  /\ lastClick' = NoClick
  /\ UNCHANGED <<hostVars, elements, writers, object3D, attempt, attemptsRun, bound, warned, caught,
                 slideVars, thrown, trackVars, navVars, layoutVars>>

\* ----------------------------------------------------------------- navigation
\* The scene registry: the scene ids that have a loader, and the class each
\* loader's module exports.
SceneIds == {"main_hall", "gallery", "unknown"}
SceneLoaders == [main_hall |-> "MainHallScene", gallery |-> "GalleryScene"]

\* getSceneLoader(targetSceneId): the loader, or undefined.
getSceneLoader(targetSceneId) ==
  IF targetSceneId \in DOMAIN SceneLoaders THEN targetSceneId ELSE Undefined

\* await safeDynamicImport(loader, context): the class the loader's module
\* exports, an empty value, or a rejection.
Empty == "empty"
Rejected == "rejected"
safeDynamicImport(loader) == {SceneLoaders[loader], Empty, Rejected}

\* handleSceneLoadError(targetSceneId, error): reports the error and returns.
handleSceneLoadError(log) == log \cup {"handled"}

\* navigateToScene(targetSceneId) up to its await.
navigateToScene(n, targetSceneId) ==
  /\ navPc[n] = "idle"
  /\ \A m \in 1..(n - 1) : navPc[m] # "idle"
  /\ navTarget' = [navTarget EXCEPT ![n] = targetSceneId]
  /\ IF getSceneLoader(targetSceneId) = Undefined
     THEN /\ navLog' = [navLog EXCEPT ![n] = @ \cup {"no loader"}]
          /\ navPc' = [navPc EXCEPT ![n] = "done"]
     ELSE /\ navPc' = [navPc EXCEPT ![n] = "awaiting"]
          /\ UNCHANGED navLog
  /\ lastClick' = NoClick
  /\ UNCHANGED <<hostVars, elements, writers, object3D, callVars, slideVars, thrown,
                 trackVars, navResult, loadScene, panelFrames, layoutVars>>

\* A mutation of importSettles: the empty module is not tested for.
importSettlesUnchecked(n, SceneClass, loadSceneThrows) ==
  /\ navPc[n] = "awaiting"
  /\ SceneClass \in safeDynamicImport(getSceneLoader(navTarget[n]))
  /\ navResult' = [navResult EXCEPT ![n] = SceneClass]
  /\ navPc' = [navPc EXCEPT ![n] = "done"]
  /\ IF SceneClass = Rejected
     THEN /\ navLog' = [navLog EXCEPT ![n] = handleSceneLoadError(@)]
          /\ UNCHANGED loadScene
     ELSE /\ loadScene' = Append(loadScene, <<n, SceneClass>>)
          /\ navLog' = [navLog EXCEPT ![n] = IF loadSceneThrows THEN handleSceneLoadError(@)
                                              ELSE @]
  /\ lastClick' = NoClick
  /\ UNCHANGED <<hostVars, elements, writers, object3D, callVars, slideVars, thrown,
                 trackVars, navTarget, panelFrames, layoutVars>>

\* navigateToScene from its await on: the import settled with SceneClass (or
\* rejected); loadSceneThrows says whether sceneManager.loadScene throws.
importSettles(n, SceneClass, loadSceneThrows) ==
  /\ navPc[n] = "awaiting"
  /\ SceneClass \in safeDynamicImport(getSceneLoader(navTarget[n]))
  /\ navResult' = [navResult EXCEPT ![n] = SceneClass]
  /\ navPc' = [navPc EXCEPT ![n] = "done"]
  /\ IF SceneClass = Rejected
     THEN /\ navLog' = [navLog EXCEPT ![n] = handleSceneLoadError(@)]
          /\ UNCHANGED loadScene
     ELSE IF SceneClass = Empty
     THEN /\ navLog' = [navLog EXCEPT ![n] = @ \cup {"empty module"}]
          /\ UNCHANGED loadScene
     ELSE /\ loadScene' = Append(loadScene, <<n, SceneClass>>)
          /\ navLog' = [navLog EXCEPT ![n] = IF loadSceneThrows THEN handleSceneLoadError(@)
                                              ELSE @]
  /\ lastClick' = NoClick
  /\ UNCHANGED <<hostVars, elements, writers, object3D, callVars, slideVars, thrown,
                 trackVars, navTarget, panelFrames, layoutVars>>

\* The onClick callback of the k-th portal bound: this.navigateToScene(target).
portalOnClick(k, n) ==
  /\ k \in 1..Len(portals)
  /\ navigateToScene(n, portals[k].target)

\* ---------------------------------------------------------- specifications
Document(kinds) == [id \in DOMAIN kinds |-> NewElement(kinds[id])]

InitCalls ==
  /\ pc = [c \in Calls |-> "idle"]
  /\ attempt = [c \in Calls |-> 0]
  /\ args = [c \in Calls |-> NoArgs]
  /\ attemptsRun = [c \in Calls |-> 0]
  /\ bound = [c \in Calls |-> 0]
  /\ warned = [c \in Calls |-> FALSE]
  /\ caught = [c \in Calls |-> FALSE]
  /\ returned = [c \in Calls |-> "none"]
  /\ imageElement = [c \in Calls |-> NoElement]
  /\ currentIndex = [c \in Calls |-> 0]
  /\ slideshowInterval = [c \in Calls |-> FALSE]
  /\ firings = [c \in Calls |-> 0]
  /\ lateFirings = [c \in Calls |-> 0]
  /\ writers = << >>
  /\ shown = [c \in Calls |-> << >>]
  /\ thrown = {}
  /\ lastClick = NoClick
  /\ InitScene

\* One entity, created by the host engine and attached to the level root; its
\* index and its document are still to come.
InitEntity ==
  /\ world = {1}
  /\ indexed = {}
  /\ docReady = {}
  /\ docMethods = [e \in Entities |-> DocMethods]
  /\ object3D = [e \in Entities |-> IF e = 1 THEN NewObject3D("levelRoot") ELSE NullObject3D]

ContentA ==
  [title |-> TitleA, description |-> DescOfLen(3), thumbnails |-> <<"a", "b", "c", "d">>,
   image |-> "a"]
ContentB ==
  [title |-> TitleB, description |-> DescOfLen(DescLimit + 1),
   thumbnails |-> <<"x", "", "a", "b", "c">>, image |-> NoSrc]
ImagesXYZ == <<"x", "y", "z">>

NextHost == \E e \in Entities : HostAssignsIndex(e) \/ HostCreatesDocument(e)

\* The three polling loops side by side on one entity whose document holds the
\* elements of both panel layouts.
TextIds == {"panel-title", "panel-description"}

Init ==
  /\ InitEntity
  /\ \E ids \in {GalleryIds \cup PanelIds, TextIds} :
        elements = [e \in Entities |-> Document([id \in ids |-> UIKitEl])]
  /\ InitCalls

Next ==
  \/ NextHost
  \/ \E c \in Calls, m \in {0, MaxAttempts} :
        \/ bindGalleryContent(c, 1, ContentA, FALSE, m)
        \/ bindPanelContent(c, 1, ContentB, m)
        \/ createSlideshow(c, 1, ImagesXYZ, m)
  \/ \E c \in Calls :
        \/ galleryOuterFrame(c)
        \/ attemptBinding(c)
        \/ panelTimeout(c)
        \/ slideshowFrame(c)
        \/ intervalFires(c, MaxTicks)

Spec == Init /\ [][Next]_vars

\* Slideshows on one entity: overlapping createSlideshow calls, stopSlideshow at
\* any time, over documents with a panel image, with thumbnails only, or with
\* no image at all.
ImageLists == {ImagesXYZ, <<"a">>, << >>}

InitSlide ==
  /\ InitEntity
  /\ \E ids \in {PanelIds, TextIds}, k \in {UIKitEl, SrcOnlyEl} :
        elements = [e \in Entities |-> Document([id \in ids |-> k])]
  /\ InitCalls

NextSlide ==
  \/ NextHost
  \/ \E c \in Calls, images \in ImageLists, m \in {0, MaxAttempts} :
        createSlideshow(c, 1, images, m)
  \/ \E c \in Calls : createSlideshowMissing(c, 1, MaxAttempts)
  \/ \E c \in Calls : slideshowFrame(c) \/ intervalFires(c, MaxTicks)
  \/ stopSlideshow(1)

SpecSlide == InitSlide /\ [][NextSlide]_vars

\* One slideshow followed through MaxFirings timer firings, over every kind of
\* image element and every layout.
CycleLists == {ImagesXYZ, <<"a">>, <<"a", "b">>}
ImageKinds == {UIKitEl, DomEl, SrcOnlyEl, AttrOnlyEl}

InitCycle ==
  /\ InitEntity
  /\ \E ids \in {PanelIds, GalleryIds, TextIds}, k \in ImageKinds :
        elements = [e \in Entities |-> Document([id \in ids |-> k])]
  /\ InitCalls

NextCycle ==
  \/ NextHost
  \/ \E images \in CycleLists, m \in {0, MaxAttempts} : createSlideshow(1, 1, images, m)
  \/ slideshowFrame(1)
  \/ intervalFires(1, MaxFirings)
  \/ stopSlideshow(1)

SpecCycle == InitCycle /\ [][NextCycle]_vars

\* Gallery panels bound again and again on one entity, with and without a click
\* callback, and the user clicking thumbnails in between.
ClickKinds == {UIKitEl, DomEl, OnclickEl, SrcOnlyEl}

InitRebind ==
  /\ InitEntity
  /\ \E k \in ClickKinds : elements = [e \in Entities |-> Document([id \in GalleryIds |-> k])]
  /\ InitCalls

NextRebind ==
  \/ NextHost
  \/ \E c \in Calls, content \in {ContentA, ContentB}, cb \in BOOLEAN :
        bindGalleryContent(c, 1, content, cb, 1)
  \/ \E c \in Calls : galleryOuterFrame(c) \/ attemptBinding(c)
  \/ \E id \in ThumbnailIds : Click(1, id)

SpecRebind == InitRebind /\ [][NextRebind]_vars

\* A scene through its life: the host creates entities, the scene tracks them
\* in any order and any number of times, navigates, and is disposed.
InitSceneLife ==
  /\ world = {}
  /\ indexed = {}
  /\ docReady = {}
  /\ docMethods = [e \in Entities |-> DocMethods]
  /\ object3D = [e \in Entities |-> NullObject3D]
  /\ elements = [e \in Entities |-> Document([id \in GalleryIds |-> UIKitEl])]
  /\ InitCalls

NextSceneLife ==
  \/ \E e \in Entities, parent \in {"levelRoot", "scene"} : createTransformEntity(e, parent)
  \/ \E e \in Entities : trackEntity(e)
  \/ dispose

SpecSceneLife == InitSceneLife /\ [][NextSceneLife]_vars

\* A scene that tracks its entities in the order of their creation, with
\* teardowns that throw at any step of any tracked entity.
TeardownFaults == [index : 1..MaxTracked, step : TeardownSteps]

NextFailingTeardown ==
  \/ \E e \in Entities, parent \in {"levelRoot", "scene"} : createTransformEntity(e, parent)
  \/ \E e \in Entities : Len(entities) = e - 1 /\ trackEntity(e)
  \/ dispose
  \/ \E fault \in TeardownFaults : disposeThrowing(fault)

SpecFailingTeardown == InitSceneLife /\ [][NextFailingTeardown]_vars

\* Navigations started from a scene that creates and tracks its portals; the
\* imports settle in any order.
NextNavigate ==
  \/ createTransformEntity(1, "levelRoot")
  \/ trackEntity(1)
  \/ \E n \in Navs, targetSceneId \in SceneIds : navigateToScene(n, targetSceneId)
  \/ \E n \in Navs, SceneClass \in {"MainHallScene", "GalleryScene", Empty, Rejected},
        loadSceneThrows \in BOOLEAN : importSettles(n, SceneClass, loadSceneThrows)

SpecNavigate == InitSceneLife /\ [][NextNavigate]_vars

\* The gallery scene renders its panels: each panel's frame callbacks run, its
\* content is bound once the host has made the document.  A lone panel ranges
\* over every shape of record.
Sources == <<"a", "b", "c", "d", "x", "y", "z">>
SrcList(n) == [i \in 1..n |-> Sources[i]]

PanelRecords ==
  {[title |-> TitleA, description |-> DescOfLen(3), given |-> g, thumbnails |-> t,
    images |-> i, image |-> b] :
      g \in {{}, {"thumbnails"}, {"images"}, {"thumbnails", "images"}},
      t \in {SrcList(n) : n \in 0..MaxGiven}, i \in {<< >>, <<"z">>}, b \in {NoSrc, "b"}}

PanelA ==
  [title |-> TitleA, description |-> DescOfLen(DescLimit + 1), given |-> {"thumbnails"},
   thumbnails |-> SrcList(MaxGiven), images |-> << >>, image |-> "b"]
PanelB ==
  [title |-> TitleB, description |-> NoText, given |-> {"images"}, thumbnails |-> << >>,
   images |-> <<"y", "z">>, image |-> NoSrc]

InitGallery ==
  /\ world = {}
  /\ indexed = {}
  /\ docReady = {}
  /\ docMethods = [e \in Entities |-> DocMethods]
  /\ object3D = [e \in Entities |-> NullObject3D]
  /\ elements = [e \in Entities |-> Document([id \in GalleryIds |-> UIKitEl])]
  /\ InitCalls

NextGallery ==
  \/ \E p \in PanelRecords : GalleryScene_init(<<p>>, << >>, NoFault, NoFault)
  \/ \E panels \in {<< >>, <<PanelB, PanelA>>, <<PanelA, PanelB, PanelB>>} :
        GalleryScene_init(panels, << >>, NoFault, NoFault)
  \/ \E e \in Entities : panelOuterFrame(e) \/ HostCreatesDocument(e) \/ HostAssignsIndex(e)
  \/ \E e \in Entities, c \in Calls : panelInnerFrame(e, c)
  \/ \E c \in Calls : galleryOuterFrame(c) \/ attemptBinding(c)

SpecGallery == InitGallery /\ [][NextGallery]_vars

\* One bindGalleryContent call followed through every field it binds: titles
\* and descriptions of every length around the limit, thumbnail lists of every
\* length, over every kind of element.
DescLengths == {0, 1, DescLimit - 1, DescLimit, DescLimit + 1, DescLimit + MaxExtra}
FieldContents ==
  {[title |-> t, description |-> DescOfLen(n), thumbnails |-> th, image |-> NoSrc] :
      t \in {NoText, TitleA}, n \in DescLengths,
      th \in {<< >>, <<"a">>, <<"x", "", "a", "b", "c">>}}
FieldKinds == {UIKitEl, DomEl, SrcOnlyEl, OnclickEl, AttrOnlyEl}

InitFields ==
  /\ InitEntity
  /\ \E k \in FieldKinds : elements = [e \in Entities |-> Document([id \in GalleryIds |-> k])]
  /\ InitCalls

NextFields ==
  \/ NextHost
  \/ \E content \in FieldContents, cb \in BOOLEAN, m \in {0, MaxAttempts} :
        bindGalleryContent(1, 1, content, cb, m)
  \/ galleryOuterFrame(1)
  \/ attemptBinding(1)
  \/ \E id \in ThumbnailIds : Click(1, id)

SpecFields == InitFields /\ [][NextFields]_vars

\* The scenes lay out their content: the gallery scene renders zero to three
\* panels and its teleports, the main hall one portal; any one step of creating
\* a panel or a portal may raise an exception.  Frames run, portals are
\* clicked, and the scene is disposed.
Teleport(target) == [label |-> target, target |-> target]
Forward(n) == [i \in 1..n |-> Teleport(IF i % 2 = 1 THEN "gallery" ELSE "unknown")]
TeleportLists ==
  {Forward(n) : n \in 0..MaxEntities}
    \cup {<<Teleport("main_hall")>> \o Forward(n) : n \in 0..MaxEntities}
    \cup {Forward(1) \o <<Teleport("main_hall")>> \o Forward(1)}
PanelLists == {<< >>, <<PanelA>>, <<PanelA, PanelB>>, <<PanelB, PanelA, PanelA>>}
Faults == {NoFault} \cup [index : 0..(MaxEntities - 1), step : FaultSteps]

NextLayout ==
  \/ \E panels \in PanelLists, teleports \in TeleportLists, panelFault, portalFault \in Faults :
        GalleryScene_init(panels, teleports, panelFault, portalFault)
  \/ \E teleports \in TeleportLists, fault \in Faults : MainHallScene_init(teleports, fault)
  \/ \E e \in Entities : panelOuterFrame(e)
  \/ \E e \in Entities, c \in Calls : panelInnerFrame(e, c)
  \/ \E k \in 1..MaxEntities, n \in Navs : portalOnClick(k, n)
  \/ dispose

SpecLayout == InitGallery /\ [][NextLayout]_vars

\* A scene that tracks an entity with a slideshow and is disposed, with or
\* without stopSlideshow being called; the timer is followed through
\* MaxFirings firings.
InitTeardown ==
  /\ InitEntity
  /\ \E k \in {UIKitEl, DomEl, SrcOnlyEl} :
        elements = [e \in Entities |-> Document([id \in PanelIds |-> k])]
  /\ InitCalls

NextTeardown ==
  \/ NextHost
  \/ trackEntity(1)
  \/ \E images \in {ImagesXYZ, <<"a", "b">>}, m \in {0, MaxAttempts} :
        createSlideshow(1, 1, images, m)
  \/ slideshowFrame(1)
  \/ intervalFires(1, MaxFirings)
  \/ stopSlideshow(1)
  \/ dispose

SpecTeardown == InitTeardown /\ [][NextTeardown]_vars

\* Calls that overlap on one entity with different contents and image lists:
\* any call may be made while the loops of the earlier ones are still polling.
\* Every call allows one retry.
InitOverlap ==
  /\ InitEntity
  /\ \E ids \in {GalleryIds \cup PanelIds, GalleryIds} :
        elements = [e \in Entities |-> Document([id \in ids |-> UIKitEl])]
  /\ InitCalls

NextOverlap ==
  \/ NextHost
  \/ \E c \in Calls, content \in {ContentA, ContentB} :
        \/ bindGalleryContent(c, 1, content, FALSE, 1)
        \/ bindPanelContent(c, 1, content, 1)
  \/ \E c \in Calls, images \in {ImagesXYZ, <<"a", "b">>} : createSlideshow(c, 1, images, 1)
  \/ \E c \in Calls :
        \/ galleryOuterFrame(c)
        \/ attemptBinding(c)
        \/ panelTimeout(c)
        \/ slideshowFrame(c)
        \/ intervalFires(c, MaxTicks)

SpecOverlap == InitOverlap /\ [][NextOverlap]_vars

\* One gallery or panel binding on a document that lacks any of the elements
\* the binders look for.
InitMissing ==
  /\ InitEntity
  /\ \E ids \in SUBSET (GalleryIds \cup PanelIds) :
        elements = [e \in Entities |-> Document([id \in ids |-> UIKitEl])]
  /\ InitCalls

NextMissing ==
  \/ NextHost
  \/ \E content \in {ContentA, ContentB}, m \in {0, 1} :
        \/ bindGalleryContent(1, 1, content, FALSE, m)
        \/ bindPanelContent(1, 1, content, m)
  \/ galleryOuterFrame(1)
  \/ attemptBinding(1)
  \/ panelTimeout(1)

SpecMissing == InitMissing /\ [][NextMissing]_vars

\* Gallery bindings on a document whose first thumbnail has assignment
\* mechanisms that throw: setProperties, the src setter, or both.
FaultyElement(caps, faults) == [NewElement(caps) EXCEPT !.faults = faults]

InitFaulty ==
  /\ InitEntity
  /\ \E caps \in {UIKitEl \cup DomEl, DomEl}, faults \in SUBSET {"setProperties", "src"} :
        elements = [e \in Entities |->
                      [id \in GalleryIds |->
                         IF id = "thumbnail-1" THEN FaultyElement(caps, faults)
                         ELSE NewElement(caps)]]
  /\ InitCalls

NextFaulty ==
  \/ NextHost
  \/ \E content \in {ContentA, ContentB}, onThumbnailClick \in BOOLEAN, m \in {0, MaxAttempts} :
        bindGalleryContent(1, 1, content, onThumbnailClick, m)
  \/ galleryOuterFrame(1)
  \/ attemptBinding(1)
  \/ \E id \in ThumbnailIds : Click(1, id)

SpecFaulty == InitFaulty /\ [][NextFaulty]_vars

\* Panel bindings on documents of every kind of element.
InitPanel ==
  /\ InitEntity
  /\ \E k \in FieldKinds : elements = [e \in Entities |-> Document([id \in PanelIds |-> k])]
  /\ InitCalls

NextPanel ==
  \/ NextHost
  \/ \E c \in Calls, content \in {ContentA, ContentB}, m \in {0, MaxAttempts} :
        bindPanelContent(c, 1, content, m)
  \/ \E c \in Calls : panelTimeout(c)

SpecPanel == InitPanel /\ [][NextPanel]_vars

\* A gallery binding, with or without a click callback, and clicks dispatched
\* on its thumbnails with every kind of event; the callback may throw.
NextClick ==
  \/ NextHost
  \/ \E content \in {ContentA, ContentB}, cb \in BOOLEAN, m \in {0, MaxAttempts} :
        bindGalleryContent(1, 1, content, cb, m)
  \/ galleryOuterFrame(1)
  \/ attemptBinding(1)
  \/ \E id \in ThumbnailIds, event \in Events, callbackThrows \in BOOLEAN :
        Dispatch(1, id, event, callbackThrows)

SpecClick == InitRebind /\ [][NextClick]_vars

\* Gallery bindings on documents that offer any subset of the lookup methods
\* and hold any of the title, the description and two thumbnails by id, and
\* any of four nodes without an id that carry the gallery classes; the nodes
\* with an id carry their class too in half of the documents.
ClassOf(id) ==
  CASE id \in {"panel-title", "node-title"} -> "gallery-title"
    [] id \in {"panel-description", "node-description"} -> "gallery-description"
    [] OTHER -> "gallery-thumbnail"
IdNodes == {"panel-title", "panel-description", "thumbnail-1", "thumbnail-2"}
ClassNodes == {"node-title", "node-description", "node-thumb-a", "node-thumb-b"}

InitLookup ==
  /\ world = {1}
  /\ indexed = {}
  /\ docReady = {}
  /\ object3D = [e \in Entities |-> IF e = 1 THEN NewObject3D("levelRoot") ELSE NullObject3D]
  /\ \E methods \in SUBSET DocMethods : docMethods = [e \in Entities |-> methods]
  /\ \E ids \in SUBSET IdNodes, nodes \in SUBSET ClassNodes, classed \in BOOLEAN :
        elements = [e \in Entities |->
                      [k \in ids \cup nodes |->
                         IF k \in nodes \/ classed THEN ClassElement(UIKitEl, ClassOf(k))
                         ELSE NewElement(UIKitEl)]]
  /\ InitCalls

NextLookup ==
  \/ NextHost
  \/ \E content \in {ContentA, ContentB}, m \in {0, 1} :
        bindGalleryContent(1, 1, content, FALSE, m)
  \/ galleryOuterFrame(1)
  \/ attemptBinding(1)

SpecLookup == InitLookup /\ [][NextLookup]_vars

\* Slideshows created and stopped again and again on one entity.
NextRestart ==
  \/ NextHost
  \/ \E c \in Calls, images \in {ImagesXYZ, <<"a", "b">>}, m \in {0, 1} :
        createSlideshow(c, 1, images, m)
  \/ \E c \in Calls :
        \/ slideshowFrame(c)
        \/ intervalFires(c, MaxTicks)
  \/ stopSlideshow(1)

SpecRestart == InitTeardown /\ [][NextRestart]_vars

\* -------------------------------------------------------------------- claims
Pristine(els) == \A id \in DOMAIN els : els[id] = NewElement(els[id].caps)

\* No element of els carries a listener that call c installed.
Untouched(els, c) ==
  \A id \in DOMAIN els :
    /\ \A h \in els[id].errorListeners : h.call # c
    /\ \A i \in 1..Len(els[id].clickListeners) : els[id].clickListeners[i].call # c

\* What call c polls for is not there: the entity's document or, for a
\* slideshow, an image element in it.
Unavailable(c) ==
  \/ args[c].entity \notin docReady
  \/ /\ args[c].kind = "slideshow"
     /\ FindImageElement(elements[args[c].entity], "panel-image") = NoElement

\* C1: in each of the three polling loops the attempt function runs at most
\* maxAttempts + 1 times; as long as what the loop polls for has not become
\* available the call binds nothing, throws nothing, starts no timer and
\* leaves every element as it was, and once its attempts are used up it has
\* logged the warning and has no frame or timeout callback pending.
C1_RetryBound ==
  \A c \in Calls :
    args[c].kind \in {"gallery", "panel", "slideshow"} =>
      /\ attemptsRun[c] <= args[c].maxAttempts + 1
      /\ warned[c] => pc[c] = "done" /\ attemptsRun[c] = args[c].maxAttempts + 1
      /\ Unavailable(c) =>
           /\ bound[c] = 0
           /\ \A op \in {"createSlideshow", "frame", "interval"} : <<op, c>> \notin thrown
           /\ ~slideshowInterval[c] /\ shown[c] = << >>
           /\ Untouched(elements[args[c].entity], c)
           /\ args[c].entity \notin docReady => Pristine(elements[args[c].entity])
           /\ attemptsRun[c] = args[c].maxAttempts + 1 => warned[c] /\ pc[c] = "done"

\* Two loops have given up: a gallery binding that never saw the document and a
\* slideshow that saw the document but never an image element.
C1_Witness ==
  \E c, d \in Calls :
    /\ args[c].kind = "gallery" /\ warned[c] /\ attemptsRun[c] = MaxAttempts + 1
    /\ args[d].kind = "slideshow" /\ warned[d] /\ attemptsRun[d] = MaxAttempts + 1
    /\ args[d].entity \in docReady

\* C2: in one call of bindGalleryContent or bindPanelContent, an attempt that
\* runs while the entity's document is available binds the content (the title
\* element shows the title passed) and ends the loop; the call binds at most
\* once, and once it has bound no further attempt of it is pending or runs.
C2_BoundOnce ==
  [][\A c \in Calls :
       args'[c].kind \in {"gallery", "panel"} =>
         /\ bound'[c] <= 1
         /\ (attemptsRun'[c] # attemptsRun[c] /\ args'[c].entity \in docReady) =>
               /\ bound'[c] = 1
               /\ pc'[c] = "done"
               /\ ~warned'[c]
               /\ elements'[args'[c].entity]["panel-title"].text = args'[c].content.title
         /\ bound[c] = 1 =>
               /\ attemptsRun'[c] = attemptsRun[c]
               /\ pc'[c] = "done"
               /\ bound'[c] = 1]_vars

\* A gallery binding that found the document at its last attempt and a panel
\* binding that found it at a retry have both bound.
C2_Witness ==
  \E c, d \in Calls :
    /\ args[c].kind = "gallery" /\ bound[c] = 1 /\ attemptsRun[c] = MaxAttempts + 1
    /\ args[d].kind = "panel" /\ bound[d] = 1 /\ attemptsRun[d] >= 2
    /\ pc[c] = "done" /\ pc[d] = "done"

\* What stopSlideshow may touch besides the record of exceptions.
slideshowState == <<object3D, slideshowInterval, elements, imageElement, currentIndex,
                    firings, shown, pc, attempt, args>>

\* C3: stopSlideshow(entity), called while the timer of the slideshow stored on
\* the entity is running, cancels that timer and removes the stored cleanup
\* reference; a slideshow whose timer was cancelled never gets a timer again
\* and never assigns the image source again; stopSlideshow on an entity that
\* stores no slideshow (a second stop included) changes nothing.
C3_StopSlideshow ==
  [][/\ \A c \in Calls :
          (stopSlideshow(1) /\ ~object3D[1].isNull /\ object3D[1].slideshowCleanup = c
             /\ slideshowInterval[c]) =>
            /\ ~slideshowInterval'[c]
            /\ object3D'[1].slideshowCleanup = 0
     /\ \A c \in Calls :
          (bound[c] = 1 /\ ~slideshowInterval[c]) =>
            /\ ~slideshowInterval'[c]
            /\ shown'[c] = shown[c]
            /\ firings'[c] = firings[c]
     /\ (stopSlideshow(1) /\ (object3D[1].isNull \/ object3D[1].slideshowCleanup = 0)) =>
          UNCHANGED slideshowState]_vars

\* A slideshow that had fired was stopped, and stopSlideshow ran once more.
C3_Witness ==
  \E c \in Calls :
    /\ args[c].kind = "slideshow" /\ bound[c] = 1 /\ firings[c] >= 1
    /\ ~slideshowInterval[c]
    /\ object3D[1].slideshowCleanup = 0
    /\ thrown = {}

\* The sources a slideshow over images has assigned after k timer firings.
Cycle(images, k) == [i \in 1..(k + 1) |-> images[((i - 1) % Len(images)) + 1]]

\* C4: once a slideshow over n images has found its image element, each of its
\* steps leaves the element showing images[k mod n], k being the number of
\* timer firings so far (images[0] at setup), and the sources it has assigned
\* are images[0], images[1 mod n], ..., images[k mod n] in this order: x, y,
\* z, x, y after 4 firings over [x, y, z].
C4_SlideshowCycle ==
  [][\A c \in Calls :
       (args'[c].kind = "slideshow" /\ (bound'[c] # bound[c] \/ firings'[c] # firings[c])) =>
         LET images == args'[c].images
             k == firings'[c]
         IN /\ elements'[1][imageElement'[c]].src = images[(k % Len(images)) + 1]
            /\ shown'[c] = Cycle(images, k)
            /\ currentIndex'[c] = k % Len(images)]_vars

C4_Witness ==
  \E c \in Calls :
    /\ args[c].images = ImagesXYZ
    /\ firings[c] = 4
    /\ shown[c] = <<"x", "y", "z", "x", "y">>
    /\ elements[1][imageElement[c]].src = "y"

\* Elements that can take a click listener and give an earlier one back.
CanListen(el) ==
  \/ Has(el, "addEventListener") /\ Has(el, "removeEventListener")
  \/ ~Has(el, "addEventListener") /\ Has(el, "onclick")

\* The gallery calls with a click callback that have bound entity 1's document.
BoundWithCallback ==
  {c \in Calls : args[c].kind = "gallery" /\ args[c].entity = 1
                    /\ args[c].onThumbnailClick /\ bound[c] = 1}

\* C5: once bindGalleryContent has bound the same entity's document twice (or
\* more often) with a click callback, every thumbnail element that can take a
\* click listener carries exactly one, so a click on it invokes the callback
\* exactly once; no thumbnail element ever carries more than one.
C5_OneClickListener ==
  \A id \in ThumbnailIds \cap DOMAIN elements[1] :
    LET el == elements[1][id] IN
    /\ Len(Invoked(el)) <= 1
    /\ (Cardinality(BoundWithCallback) >= 2 /\ CanListen(el)) =>
          /\ Len(Invoked(el)) = 1
          /\ Len(el.clickListeners) + (IF el.onclick # NoHandler THEN 1 ELSE 0) = 1
          /\ (lastClick # NoClick /\ lastClick.target = id) => Len(lastClick.invoked) = 1

\* Two bindings with a callback have completed and a click on a thumbnail with
\* addEventListener has invoked the callback.
C5_Witness ==
  /\ Cardinality(BoundWithCallback) >= 2
  /\ lastClick # NoClick
  /\ lastClick.target = "thumbnail-2"
  /\ Has(elements[1]["thumbnail-2"], "addEventListener")
  /\ Len(lastClick.invoked) = 1

Tracked(seq) == {seq[i] : i \in 1..Len(seq)}

\* C6: when dispose() returns the tracked list is empty, and every entity that
\* was tracked, however often and in whatever order, has no object3D any more
\* and has left the scene graph exactly once; no object3D ever leaves it twice.
C6_DisposeRemovesOnce ==
  [][/\ dispose =>
          /\ entities' = << >>
          /\ \A e \in Tracked(entities) :
                /\ removed'[e] = 1
                /\ object3D'[e].isNull
                /\ destroyed'[e] > destroyed[e]
     /\ \A e \in Entities : removed'[e] <= 1]_vars

\* dispose() has returned after entity 1 was tracked twice and entity 2 once.
C6_Witness ==
  /\ disposals >= 1
  /\ entities = << >>
  /\ destroyed[1] = 2 /\ removed[1] = 1
  /\ destroyed[2] = 1 /\ removed[2] = 1

LoadSceneCalls(n) == {i \in 1..Len(loadScene) : loadScene[i][1] = n}

\* C7: a completed navigateToScene call has called sceneManager.loadScene
\* exactly once, with the class the import resolved to, if a loader is
\* registered for the target and its import resolved to a scene class, and not
\* at all otherwise; a call still in flight has not called it; no navigation
\* raises an error.
C7_LoadSceneIff ==
  \A n \in Navs :
    LET resolved == /\ navTarget[n] \in DOMAIN SceneLoaders
                    /\ navResult[n] \notin {"none", Empty, Rejected}
    IN /\ navPc[n] = "done" =>
            /\ resolved => /\ Cardinality(LoadSceneCalls(n)) = 1
                            /\ \A i \in LoadSceneCalls(n) :
                                  /\ loadScene[i][2] = navResult[n]
                                  /\ loadScene[i][2] = SceneLoaders[navTarget[n]]
            /\ ~resolved => LoadSceneCalls(n) = {}
       /\ navPc[n] # "done" => LoadSceneCalls(n) = {}
       /\ \A op \in {"navigateToScene", "importSettles"} : <<op, n>> \notin thrown

\* Every navigation is over: one handed its class to the scene manager, one
\* met a missing loader, an empty module or a rejected import.
C7_Witness ==
  /\ \A n \in Navs : navPc[n] = "done"
  /\ \E n \in Navs : Cardinality(LoadSceneCalls(n)) = 1
  /\ \E n \in Navs : navResult[n] \in {Empty, Rejected} \/ "no loader" \in navLog[n]

\* The gallery calls made by a panel's binding frame.
PanelCalls == {c \in Calls : args[c].kind = "gallery" /\ panelFrames[args[c].entity].stage = "ran"}

\* C8 as stated: for every panel record the list passed to bindGalleryContent
\* has exactly 4 entries.
C8_AlwaysFour ==
  \A c \in PanelCalls : Len(args[c].content.thumbnails) = 4

\* C8 (amended): for every panel record that has at least one thumbnail (its
\* thumbnails array, or its images array when it has no thumbnails array) or an
\* image, the list passed to bindGalleryContent has exactly 4 entries: 4 or
\* more thumbnails give the first 4 unchanged, [a] gives [a,a,a,a], 2 or 3
\* are padded to 4 with the first entry, none with image b gives [b,b,b,b];
\* for a record with no thumbnail and no image the list passed is empty.
C8_ThumbnailList ==
  \A c \in PanelCalls :
    LET panel == panelFrames[args[c].entity].panel
        t == IF "thumbnails" \in panel.given THEN panel.thumbnails
             ELSE IF "images" \in panel.given THEN panel.images ELSE << >>
        passed == args[c].content.thumbnails
    IN /\ (Len(t) > 0 \/ panel.image # NoSrc) => Len(passed) = 4
       /\ Len(t) >= 4 => passed = <<t[1], t[2], t[3], t[4]>>
       /\ Len(t) = 1 => passed = <<t[1], t[1], t[1], t[1]>>
       /\ Len(t) = 2 => passed = <<t[1], t[2], t[1], t[1]>>
       /\ Len(t) = 3 => passed = <<t[1], t[2], t[3], t[1]>>
       /\ (Len(t) = 0 /\ panel.image # NoSrc) =>
             passed = <<panel.image, panel.image, panel.image, panel.image>>
       /\ (Len(t) = 0 /\ panel.image = NoSrc) => passed = << >>

\* Two panels were rendered and bound: one from two images, padded with the
\* first, and one from more than four thumbnails, cut to the first four.
C8_Witness ==
  \E c, d \in PanelCalls :
    /\ bound[c] = 1 /\ bound[d] = 1
    /\ args[c].content.thumbnails = <<"y", "z", "y", "y">>
    /\ Len(panelFrames[args[d].entity].panel.thumbnails) > 4
    /\ args[d].content.thumbnails = <<"a", "b", "c", "d">>
    /\ elements[args[d].entity]["thumbnail-4"].src = "d"

\* The element can be given a text.
TakesText(el) == Has(el, "setProperties") \/ Has(el, "textContent") \/ Has(el, "innerText")

\* C9: bindGalleryContent writes to the description element the description
\* unchanged when it has at most 50 characters, and otherwise its first 50
\* characters followed by the three characters "...", so what is written never
\* exceeds 53 characters; an element that takes no text is left without one.
C9_DescriptionTruncated ==
  \A c \in Calls :
    (args[c].kind = "gallery" /\ bound[c] = 1) =>
      LET description == args[c].content.description
          el == elements[args[c].entity]["panel-description"]
          written == el.text
      IN /\ Len(written) <= 53
         /\ (TakesText(el) /\ Len(description) <= 50) => written = description
         /\ (TakesText(el) /\ Len(description) > 50) =>
               /\ Len(written) = 53
               /\ \A i \in 1..50 : written[i] = description[i]
               /\ \A i \in 51..53 : written[i] = 46
         /\ ~TakesText(el) => written = NoText

\* A description longer than 50 characters was bound and 53 were written.
C9_Witness ==
  /\ args[1].kind = "gallery" /\ bound[1] = 1
  /\ Len(args[1].content.description) > 51
  /\ Len(elements[1]["panel-description"].text) = 53

\* C10: a thumbnail element that exposes only a writable src (no setProperties,
\* no setAttribute, no addEventListener) has, once bindGalleryContent has bound
\* it, its src set directly to the thumbnail source (the placeholder for an
\* empty one), and the binding raised no exception.
C10_SrcOnlyThumbnail ==
  \A c \in Calls :
    (args[c].kind = "gallery" /\ bound[c] = 1) =>
      \A n \in 1..ThumbLimit :
        LET el == elements[args[c].entity][ThumbnailId(n)]
            thumbnails == args[c].content.thumbnails
        IN (el.caps = {"src"} /\ n <= Len(thumbnails)) =>
             /\ el.src = IF thumbnails[n] = NoSrc THEN Placeholder ELSE thumbnails[n]
             /\ el.via = "src"
             /\ ~caught[c]
             /\ thrown = {}
             /\ pc[c] = "done"

\* Four src-only thumbnails were bound, with a click callback, and each has the
\* source meant for it.
C10_Witness ==
  /\ args[1].kind = "gallery" /\ bound[1] = 1 /\ args[1].onThumbnailClick
  /\ \A n \in 1..ThumbLimit : elements[1][ThumbnailId(n)].caps = {"src"}
  /\ elements[1]["thumbnail-1"].src = "x"
  /\ elements[1]["thumbnail-2"].src = Placeholder
  /\ elements[1]["thumbnail-4"].src = "b"

\* C11: a createSlideshow call whose image list is missing or empty returns
\* null, runs and schedules no attempt, starts no timer, assigns nothing, throws
\* nothing and stores no cleanup function on the entity.
C11_NoImagesNoSlideshow ==
  \A c \in Calls :
    (args[c].kind = "slideshow" /\ (args[c].images = << >> \/ ~args[c].imagesGiven)) =>
      /\ returned[c] = "null"
      /\ pc[c] = "done"
      /\ attemptsRun[c] = 0
      /\ ~slideshowInterval[c] /\ firings[c] = 0 /\ shown[c] = << >>
      /\ \A e \in Entities : object3D[e].slideshowCleanup # c
      /\ \A op \in {"createSlideshow", "frame", "interval"} : <<op, c>> \notin thrown

\* One call was made with an empty list and one with none, on an entity with
\* its document ready and nothing stored on it.
C11_Witness ==
  /\ 1 \in docReady
  /\ \E c, d \in Calls :
        /\ args[c].kind = "slideshow" /\ args[c].imagesGiven /\ args[c].images = << >>
        /\ args[d].kind = "slideshow" /\ ~args[d].imagesGiven
        /\ returned[c] = "null" /\ returned[d] = "null"
  /\ object3D[1].slideshowCleanup = 0

\* The rows the gallery scene laid out and that still have their object3D: the
\* x offset of each item, by its index, and the spacing of the row.
PanelRow ==
  [n |-> Len(Slice(sceneData.panels, DisplayPanels)), spacing |-> PanelSpacing,
   at |-> {<<panelFrames[e].index, object3D[e].x>> :
             e \in {d \in world : panelFrames[d].stage # "none" /\ ~object3D[d].isNull}}]
PortalRow ==
  [n |-> Len(ForwardTeleports(sceneData.teleports)), spacing |-> TeleportSpacing,
   at |-> {<<k - 1, object3D[portals[k].entity].x>> :
             k \in {j \in 1..Len(portals) : ~object3D[portals[j].entity].isNull}}]

\* C12: in a row of N >= 1 items with spacing s the item at index i is placed
\* at -((N-1)*s)/2 + i*s: the row is symmetric about 0 and consecutive items
\* are s apart.  Three items with spacing 2 lie at -2, 0, 2 (here -40, 0, 40
\* twentieths) and a single item lies at 0.
C12_CentredRow ==
  /\ sceneData.id = "gallery" =>
        \A row \in {PanelRow, PortalRow} :
          /\ \A p \in row.at : 2 * p[2] = 2 * p[1] * row.spacing - (row.n - 1) * row.spacing
          /\ \A p, q \in row.at : p[1] + q[1] = row.n - 1 => p[2] = -q[2]
          /\ \A p, q \in row.at : q[1] = p[1] + 1 => q[2] - p[2] = row.spacing
  /\ <<XOffset(3, 40, 0), XOffset(3, 40, 1), XOffset(3, 40, 2)>> = <<-40, 0, 40>>
  /\ \A spacing \in {PanelSpacing, TeleportSpacing, 40} : XOffset(1, spacing, 0) = 0

\* Three portals were laid out at -1.8, 0 and 1.8.
C12_Witness ==
  /\ sceneData.id = "gallery"
  /\ Len(portals) = 3
  /\ <<object3D[portals[1].entity].x, object3D[portals[2].entity].x,
        object3D[portals[3].entity].x>> = <<-TeleportSpacing, 0, TeleportSpacing>>

\* C13: an exception raised while a slideshow updates its image, at set-up or
\* on a timer firing, is caught where updateImage is called and never reaches
\* the caller of createSlideshow, the frame loop or the timer.
C13_UpdateNeverPropagates ==
  \A c \in Calls :
    (args[c].kind = "slideshow" /\ bound[c] > 0) =>
      \A op \in {"createSlideshow", "frame", "interval"} : <<op, c>> \notin thrown

\* Call c is made in this step.
Returns(c) == returned[c] = "none" /\ returned'[c] # "none"

\* C14 as stated: bindGalleryContent, bindPanelContent and createSlideshow each
\* return before any element of the document is read or mutated, even when
\* the document is already available.
C14_AlwaysBeforeTouch ==
  [][\A c \in Calls :
       Returns(c) => attemptsRun'[c] = 0 /\ bound'[c] = 0 /\ elements' = elements]_vars

\* C14: bindGalleryContent returns before any element is read or mutated, even
\* when the document is available.  bindPanelContent and createSlideshow (with
\* a non-empty list) run their first attempt before they return: with no
\* document yet they touch no element, and with the document available the
\* panel's fields are bound and the image element found has the first image.
C14_ReturnBeforeTouch ==
  [][\A c \in Calls :
       Returns(c) =>
         LET e == args'[c].entity
             found == FindImageElement(elements[e], "panel-image")
         IN /\ args'[c].kind = "gallery" =>
                 attemptsRun'[c] = 0 /\ bound'[c] = 0 /\ elements' = elements
            /\ (args'[c].kind \in {"panel", "slideshow"} /\ returned'[c] # "null") =>
                 /\ attemptsRun'[c] = 1
                 /\ e \notin docReady => bound'[c] = 0 /\ elements' = elements
                 /\ (e \in docReady /\ args'[c].kind = "panel") =>
                       /\ bound'[c] = 1
                       /\ elements'[e]["panel-title"].text = args'[c].content.title
                 /\ (e \in docReady /\ args'[c].kind = "slideshow" /\ found # NoElement) =>
                       /\ bound'[c] = 1
                       /\ elements'[e][found].src = args'[c].images[1]]_vars

\* With the document available a bindPanelContent call has bound in the attempt
\* it ran itself, and a bindGalleryContent call has returned with its frame
\* still pending.
C14_Witness ==
  /\ 1 \in docReady
  /\ \E c, d \in Calls :
       /\ args[c].kind = "panel" /\ returned[c] = Undefined
       /\ attemptsRun[c] = 1 /\ bound[c] = 1 /\ attempt[c] = 0
       /\ elements[1]["panel-title"].text = args[c].content.title
       /\ args[d].kind = "gallery" /\ returned[d] = Undefined
       /\ pc[d] = "raf" /\ attemptsRun[d] = 0

\* C15: dispose() does not cancel a slideshow's timer: unless stopSlideshow was
\* called, the timer is still running when dispose() has returned, and every
\* firing after it assigns the next image source to the image element.
C15_DisposeLeavesTimer ==
  [][/\ disposals' # disposals => slideshowInterval' = slideshowInterval
     /\ \A c \in Calls :
          (disposals > 0 /\ firings'[c] # firings[c]) =>
            LET el == elements'[args[c].entity][imageElement[c]]
            IN /\ slideshowInterval'[c]
               /\ el.src = args[c].images[currentIndex'[c] + 1]
               /\ shown'[c] = Append(shown[c], el.src)]_vars

\* The tracked entity was disposed while its slideshow ran, and the timer has
\* fired twice since.
C15_Witness ==
  /\ disposals = 1
  /\ object3D[1].isNull /\ destroyed[1] > 0
  /\ slideshowInterval[1]
  /\ firings[1] > lateFirings[1] /\ lateFirings[1] = 2
  /\ elements[1]["panel-image"].src = shown[1][Len(shown[1])]

\* C16: after init() has returned and before dispose(), every entity the scene
\* created is in its tracked list, also when creating or positioning one panel
\* raised an exception that the scene caught.
C16_CreatedAreTracked ==
  (sceneData.id # "none" /\ disposals = 0 /\ <<"init", 0>> \notin thrown) =>
    world \subseteq Tracked(entities)

\* The value the callbacks of call c leave in the element id: a text for the
\* title and the description, a source for an image or a thumbnail.
Thumb(c, id) == CHOOSE n \in 1..ThumbLimit : ThumbnailId(n) = id
Writes(c, id) ==
  CASE args[c].kind = "gallery" ->
         \/ id = "panel-title" /\ args[c].content.title # NoText
         \/ id = "panel-description" /\ args[c].content.description # NoText
         \/ id \in ThumbnailIds /\ Thumb(c, id) <= Len(args[c].content.thumbnails)
    [] args[c].kind = "panel" ->
         \/ id = "panel-title" /\ args[c].content.title # NoText
         \/ id = "panel-description" /\ args[c].content.description # NoText
         \/ id = "panel-image"
    [] args[c].kind = "slideshow" -> id = imageElement[c]
    [] OTHER -> FALSE
Written(c, id) ==
  LET content == args[c].content
      orPlaceholder(src) == IF src = NoSrc THEN Placeholder ELSE src
  IN CASE args[c].kind = "slideshow" ->
            [text |-> NoText, src |-> args[c].images[currentIndex[c] + 1]]
       [] id = "panel-title" -> [text |-> content.title, src |-> NoSrc]
       [] id = "panel-description" /\ args[c].kind = "gallery" ->
            [text |-> ShortDescription(content.description), src |-> NoSrc]
       [] id = "panel-description" /\ args[c].kind = "panel" ->
            [text |-> content.description, src |-> NoSrc]
       [] id = "panel-image" -> [text |-> NoText, src |-> orPlaceholder(content.image)]
       [] OTHER -> [text |-> NoText, src |-> orPlaceholder(content.thumbnails[Thumb(c, id)])]

\* C17: when bind or create calls on one entity overlap, each polling loop runs
\* as it would alone (at most maxAttempts + 1 attempts, one binding, a warning
\* when it gives up), and every element that calls have written holds the
\* value written by the call whose callback ran last.
C17_LastWriterWins ==
  /\ \A c \in Calls :
       pc[c] # "idle" =>
         /\ attemptsRun[c] <= args[c].maxAttempts + 1
         /\ bound[c] <= 1
         /\ pc[c] = "done" => (bound[c] = 1) # warned[c]
  /\ \A id \in DOMAIN elements[1] :
       LET wrote == SelectSeq(writers, LAMBDA c : Writes(c, id)) IN
       Len(wrote) >= 1 =>
         /\ elements[1][id].text = Written(wrote[Len(wrote)], id).text
         /\ elements[1][id].src = Written(wrote[Len(wrote)], id).src

\* Two loops polled side by side; the call made first bound last, with a
\* different title, and the title element holds its title.
C17_Witness ==
  /\ args[1].kind = "gallery" /\ args[2].kind = "panel"
  /\ args[1].content.title # args[2].content.title
  /\ attemptsRun[1] >= 2 /\ attemptsRun[2] >= 2
  /\ writers = <<2, 1>>
  /\ elements[1]["panel-title"].text = args[1].content.title

\* C18: in a gallery or panel binding a field whose element is not in the
\* document is skipped without an exception, and every other field whose
\* element exists is bound by the same call.
C18_MissingFieldSkipped ==
  \A c \in Calls :
    (args[c].kind \in {"gallery", "panel"} /\ bound[c] = 1) =>
      /\ ~caught[c]
      /\ thrown = {}
      /\ \A id \in DOMAIN elements[args[c].entity] :
           LET el == elements[args[c].entity][id] IN
           IF Writes(c, id)
           THEN el.text = Written(c, id).text /\ el.src = Written(c, id).src
           ELSE el.text = NoText /\ el.src = NoSrc

\* A gallery binding ran on a document without the title and the second
\* thumbnail: the description and the other three thumbnails are bound.
C18_Witness ==
  /\ DOMAIN elements[1] = (GalleryIds \cup {"panel-image"}) \ {"panel-title", "thumbnail-2"}
  /\ args[1].kind = "gallery" /\ bound[1] = 1 /\ ~caught[1]
  /\ elements[1]["panel-description"].text = ShortDescription(args[1].content.description)
  /\ \A n \in {1, 3, 4} : elements[1][ThumbnailId(n)].src = args[1].content.thumbnails[n]
  /\ elements[1]["panel-image"].src = NoSrc

\* C19: in bindGalleryContent, when setProperties or the src setter of a
\* thumbnail element throws, the exception is caught locally and the next
\* mechanism is tried; the click handler of that thumbnail and all remaining
\* thumbnails are still bound.
C19_MechanismFailureCaught ==
  \A c \in Calls :
    (args[c].kind = "gallery" /\ bound[c] = 1) =>
      /\ ~caught[c]
      /\ (args[c].onThumbnailClick /\ writers[Len(writers)] = c) =>
           \A id \in ThumbnailIds : elements[1][id].thumbnailClickHandler.call = c
      /\ writers[Len(writers)] = c =>
           \A id \in ThumbnailIds \ {"thumbnail-1"} : elements[1][id].src = Written(c, id).src

\* C20: whenever bindPanelContent finds the panel-image element it assigns it
\* a source, content.image when given and the placeholder otherwise, by the
\* first mechanism the element offers among setProperties, src, setAttribute.
C20_PanelImageAssigned ==
  \A c \in Calls :
    (args[c].kind = "panel" /\ bound[c] = 1 /\ writers[Len(writers)] = c) =>
      LET el == elements[1]["panel-image"]
          first == IF Has(el, "setProperties") THEN "setProperties"
                   ELSE IF Has(el, "src") THEN "src"
                   ELSE IF Has(el, "setAttribute") THEN "setAttribute"
                   ELSE "none"
      IN first # "none" =>
           /\ el.src = Written(c, "panel-image").src
           /\ el.via = first

\* C21: a click handler installed by bindGalleryContent calls stopPropagation
\* and preventDefault when the event offers them, then invokes the callback
\* exactly once with the image source bound to that thumbnail; an exception of
\* the callback is caught and logged and never leaves the handler.
C21_ClickHandler ==
  LET el == elements[1][lastClick.target]
      offers(m) == lastClick.event.given /\ m \in lastClick.event.methods
  IN (lastClick # NoClick /\ el.thumbnailClickHandler # NoHandler) =>
       /\ lastClick.invoked = <<el.src>>
       /\ lastClick.stopPropagation = IF offers("stopPropagation") THEN 1 ELSE 0
       /\ lastClick.preventDefault = IF offers("preventDefault") THEN 1 ELSE 0
       /\ lastClick.logged = IF lastClick.callbackThrows THEN 1 ELSE 0
       /\ lastClick.escaped = 0
       /\ thrown = {}

\* A click with an event that offers only preventDefault reached a handler
\* whose callback threw: the callback got the thumbnail's source, the exception
\* was logged and nothing was thrown.
C21_Witness ==
  /\ lastClick.target = "thumbnail-3"
  /\ elements[1]["thumbnail-3"].thumbnailClickHandler # NoHandler
  /\ lastClick.event = [given |-> TRUE, methods |-> {"preventDefault"}]
  /\ lastClick.callbackThrows
  /\ lastClick.invoked = <<"c">>
  /\ lastClick.preventDefault = 1 /\ lastClick.stopPropagation = 0
  /\ lastClick.logged = 1 /\ thrown = {}

\* The element a lookup chain of the document of entity e settles on: the
\* first one found by the lookup by id, the id selector and the class
\* selector, asked in this order; pos is the position wanted in the class.
FirstFound(found) ==
  LET hits == SelectSeq(found, LAMBDA k : k # NoElement)
  IN IF hits = << >> THEN NoElement ELSE hits[1]
Expected(e, id, class, all, pos) ==
  LET has(method) == method \in docMethods[e]
      nodes == DOMAIN elements[e]
      ofClass == SelectSeq(NodeOrder, LAMBDA k : k \in nodes /\ elements[e][k].class = class)
      byId == IF has("getElementById") /\ id \in nodes THEN id ELSE NoElement
      byIdSelector == IF has("querySelector") /\ id \in nodes THEN id ELSE NoElement
      byClass == IF has("querySelector") /\ (all => has("querySelectorAll"))
                    /\ Len(ofClass) >= pos
                 THEN ofClass[pos] ELSE NoElement
  IN FirstFound(<<byId, byIdSelector, byClass>>)
ExpectedThumbnail(e, n) == Expected(e, ThumbnailId(n), "gallery-thumbnail", TRUE, n)

\* C22: in bindGalleryContent the title, the description and thumbnail n are
\* bound to the first element found by the lookup by id, the id selector and
\* the class selector (position n - 1 of the class for a thumbnail), in this
\* order; an element found by a later lookup is left alone when an earlier one
\* found one, and thumbnail n goes to the element with id thumbnail-n.
C22_FirstFoundIsBound ==
  \A c \in Calls :
    (args[c].kind = "gallery" /\ bound[c] = 1) =>
      LET e == args[c].entity
          content == args[c].content
          thumbs == Slice(content.thumbnails, ThumbLimit)
          title == Expected(e, "panel-title", "gallery-title", FALSE, 1)
          description == Expected(e, "panel-description", "gallery-description", FALSE, 1)
          orPlaceholder(src) == IF src = NoSrc THEN Placeholder ELSE src
      IN /\ ~caught[c]
         /\ \A k \in DOMAIN elements[e] :
              LET bindings == {n \in 1..Len(thumbs) : ExpectedThumbnail(e, n) = k}
                  last == CHOOSE n \in bindings : \A m \in bindings : m <= n
              IN /\ elements[e][k].text =
                      IF k = title THEN content.title
                      ELSE IF k = description THEN ShortDescription(content.description)
                      ELSE NoText
                 /\ elements[e][k].src =
                      IF bindings = {} THEN NoSrc ELSE orPlaceholder(thumbs[last])
         /\ \A n \in 1..Len(thumbs) :
              (ThumbnailId(n) \in DOMAIN elements[e]
                 /\ docMethods[e] \cap {"getElementById", "querySelector"} # {}) =>
                ExpectedThumbnail(e, n) = ThumbnailId(n)

\* A document with only the id selector and the class selectors, holding the
\* title and the second thumbnail by id next to nodes of each class: the title
\* and the second thumbnail went to the elements with the ids, the description
\* and the first thumbnail to the nodes of their class, the title node of the
\* class stayed empty.
C22_Witness ==
  /\ docMethods[1] = {"querySelector", "querySelectorAll"}
  /\ DOMAIN elements[1] =
       {"panel-title", "node-title", "node-description", "node-thumb-a", "thumbnail-2"}
  /\ elements[1]["thumbnail-2"].class = "none"
  /\ args[1].kind = "gallery" /\ bound[1] = 1
  /\ elements[1]["panel-title"].text = args[1].content.title
  /\ elements[1]["node-title"].text = NoText
  /\ elements[1]["node-description"].text = ShortDescription(args[1].content.description)
  /\ elements[1]["node-thumb-a"].src = args[1].content.thumbnails[1]
  /\ elements[1]["thumbnail-2"].src = args[1].content.thumbnails[2]

\* C23: when the teardown of a tracked entity throws during dispose(), the
\* exception leaves dispose(): the entities tracked after it are not torn
\* down and the tracked list is not cleared.
C23_TeardownFailurePropagates ==
  [][(disposals' = disposals + 1 /\ teardownFault' # NoTeardownFault) =>
       LET i == teardownFault'.index
           reached == {entities[k] : k \in 1..i}
       IN /\ <<"dispose", disposals'>> \in thrown' \ thrown
          /\ entities' = entities
          /\ \A j \in (i + 1)..Len(entities) :
               entities[j] \notin reached =>
                 /\ object3D'[entities[j]] = object3D[entities[j]]
                 /\ removeCalls'[entities[j]] = removeCalls[entities[j]]
                 /\ destroyed'[entities[j]] = destroyed[entities[j]]]_vars

\* Three entities were tracked and destroy() of the second threw: the first
\* is torn down, the second lost its object but was not destroyed, the third
\* is still in the scene graph, and all three are still tracked.
C23_Witness ==
  /\ entities = <<1, 2, 3>>
  /\ teardownFault = [index |-> 2, step |-> "destroy"]
  /\ thrown = {<<"dispose", 1>>}
  /\ object3D[1].isNull /\ destroyed[1] = 1
  /\ object3D[2].isNull /\ destroyed[2] = 0
  /\ ~object3D[3].isNull /\ object3D[3].parent # "none" /\ destroyed[3] = 0

\* C24: when stopSlideshow is called after createSlideshow while the polling
\* has not yet found the image element, the slideshow never starts: no timer
\* is created and the slideshow sets no image source afterwards.
C24_StoppedWhilePollingNeverStarts ==
  [][\A c \in Calls :
       (/\ args[c].kind = "slideshow"
        /\ pc[c] = "attempt"
        /\ ~object3D[args[c].entity].isNull
        /\ object3D[args[c].entity].slideshowCleanup = 0) =>
         /\ ~slideshowInterval'[c]
         /\ shown'[c] = << >>]_vars

\* C25: after any sequence of createSlideshow and stopSlideshow calls on one
\* entity at most one slideshow timer is active, and none is active when the
\* last of the calls was stopSlideshow.
C25_AtMostOneTimer ==
  /\ Cardinality({c \in Calls : slideshowInterval[c]}) <= 1
  /\ (/\ \E c \in Calls : args[c].kind = "slideshow"
      /\ \A c \in Calls : pc[c] \in {"idle", "done"}
      /\ object3D[1].slideshowCleanup = 0) =>
       \A c \in Calls : ~slideshowInterval[c]

\* C26: stopSlideshow raises no exception in any state of the entity that
\* createSlideshow, stopSlideshow and dispose() can bring about, in particular
\* not after the entity was disposed.
C26_StopNeverRaises ==
  \A op \in thrown : op[1] # "stopSlideshow"

\* C27: at any time the image element carries at most one error listener of
\* the slideshow: the listener of the previous cycle is removed before the
\* next one is attached, so their number does not grow with the cycles.
C27_OneErrorListener ==
  \A c \in Calls :
    (args[c].kind = "slideshow" /\ imageElement[c] # NoElement) =>
      Cardinality({h \in elements[args[c].entity][imageElement[c]].errorListeners :
                     h.call = c}) <= 1

\* C28: after any sequence of completed bindGalleryContent calls on one
\* entity, made with or without a click callback, every click handler attached
\* to a thumbnail reports the image source bound to it most recently; no
\* handler of an earlier call stays attached with a stale source.
C28_HandlerReportsLatestSource ==
  (writers # << >> /\ \A c \in Calls : pc[c] \in {"idle", "done"}) =>
    LET c == writers[Len(writers)] IN
    (args[c].kind = "gallery" /\ ~caught[c]) =>
      \A id \in ThumbnailIds \cap DOMAIN elements[args[c].entity] :
        LET handlers == Handlers(elements[args[c].entity][id]) IN
        Writes(c, id) =>
          \A i \in 1..Len(handlers) : handlers[i].src = Written(c, id).src
====
